---- MODULE Spec2Model ----
(***************************************************************************)
(* A model of the paper_reviewer scraper (src/code/main.py and friends).   *)
(*                                                                         *)
(* Strings are TLA+ strings handled character by character with SubSeq,    *)
(* Len and \o, so that urlparse, parse_qs, split, replace and lower are    *)
(* computed the way the Python library computes them.                      *)
(***************************************************************************)
EXTENDS Integers, Sequences, FiniteSets, TLC

VARIABLES
    upc, url1, url2, same,          \* _urls_are_same_file: position, arguments, result
    gpc, gshape, ghost, gsegs, gsuffix, gresult,
                                    \* _normalize_github_repo_url: position, the parts
                                    \* the link is built from, result
    ppc, table, records,            \* _parse_table: position, the table element, result
    pc,                             \* main/run: "start", "process", then how it ended
    page,                           \* what the submissions URL answers
    metadata,                       \* run: the parsed records
    csv,                            \* the rows of downloads/metadata.csv
    cur, step,                      \* _process_papers: the record and the step at hand
    notes,                          \* _process_papers: the notes of the record at hand
    counts,                         \* self.counts
    disk,                           \* the files under downloads/: name and state, by directory
    remote,                         \* the remote calls made so far: operation and forum id
    escaped,                        \* the exception that left run, NotRun while none has
    skipped,                        \* the forum ids whose attachment was skipped as a
                                    \* duplicate of the code link (the log of line 350)
    awaiting_delay,                 \* no time.sleep has followed the last remote call yet
    hurried,                        \* a remote call was issued while awaiting_delay
    dpc,                            \* download_papers: position in main/download_file
    runs,                           \* download_papers: how often the script was started
    forum_ids,                      \* download_papers main: the papers to download
    paper_idx,                      \* download_papers main: the paper at hand (idx)
    pdf_file,                       \* download_papers: by paper, its PDF file: "absent",
                                    \* "partial" or "complete"
    attempt,                        \* download_file: the loop variable
    requests,                       \* download_file: the GET requests sent so far
    dresult,                        \* download_file: what the last call gave
    call_requests, sleeps,          \* download_file: the requests and the time.sleep(2)
                                    \* of the call at hand
    fpc, flink,                     \* forum-id extraction: position, the link and how
                                    \* it was built
    derived_ids, extracted_ids,     \* the results of the calls of _derive_forum_id and
                                    \* of extract_forum_id so far
    cpc, csv_text, df,              \* parse_submissions_table: position, the text of
                                    \* papers.csv, the rows of the result
    xpc, xurl, xforum,              \* _guess_extension: position, the attachment URL and
                                    \* the forum id of the record
    xext, xdir, xfound,             \* the extension, the supplementary directory after
                                    \* the save, what the glob of the next run finds
    mpc, sources,                   \* download_papers.main: position, the forum ids each
                                    \* source holds
    consulted, main_ids,            \* the sources asked so far with what each gave, and
                                    \* the list forum_ids
    ids_written, midx,              \* forum_ids.txt was written; the paper of the loop
    success_count, failed_count     \* the counters of the loop

urlVars == <<upc, url1, url2, same>>
gitVars == <<gpc, gshape, ghost, gsegs, gsuffix, gresult>>
parseVars == <<ppc, table, records>>
runVars ==
    <<pc, page, metadata, csv, cur, step, notes, counts, disk, remote, escaped, skipped,
      awaiting_delay, hurried>>
downVars ==
    <<dpc, runs, forum_ids, paper_idx, pdf_file, attempt, requests, dresult, call_requests,
      sleeps>>
scrapeVars == <<fpc, flink, derived_ids, extracted_ids, cpc, csv_text, df>>
extVars == <<xpc, xurl, xforum, xext, xdir, xfound>>
mainVars ==
    <<mpc, sources, consulted, main_ids, ids_written, midx, success_count, failed_count>>
vars == <<urlVars, gitVars, parseVars, runVars, downVars, scrapeVars, extVars, mainVars>>

(***************************************************************************)
(* Bounds of the model.                                                    *)
(***************************************************************************)
MaxParams == 1      \* query parameters of a URL given to _urls_are_same_file
MaxSegments == 3    \* path segments of a link given to _normalize_github_repo_url
MaxRows == 2        \* data rows of a submissions table given to _parse_table
MaxPapers == 2      \* data rows of the submissions table a run fetches
MaxRuns == 2        \* starts of the download_papers script
MaxDownloads == 2   \* papers of the download_papers script

(***************************************************************************)
(* Python values.                                                          *)
(***************************************************************************)
None == [py |-> "None"]
Raised == [py |-> "ValueError"]     \* an exception leaving the function
NotRun == [py |-> "not run"]        \* the function has not returned yet

(***************************************************************************)
(* str operations.                                                         *)
(***************************************************************************)
Ch(s, i) == SubSeq(s, i, i)

Min(S) == CHOOSE m \in S : \A n \in S : m <= n

\* s.find(sub) from index `from`, 1-based; 0 when absent
Find(s, sub, from) ==
    LET hits == {i \in from..(Len(s) - Len(sub) + 1) : SubSeq(s, i, i + Len(sub) - 1) = sub}
    IN  IF hits = {} THEN 0 ELSE Min(hits)

\* sub in s
Contains(s, sub) == Find(s, sub, 1) # 0

StartsWith(s, prefix) == Len(prefix) <= Len(s) /\ SubSeq(s, 1, Len(prefix)) = prefix

EndsWith(s, suffix) ==
    Len(suffix) <= Len(s) /\ SubSeq(s, Len(s) - Len(suffix) + 1, Len(s)) = suffix

\* s[i:] with i 1-based
From(s, i) == SubSeq(s, i, Len(s))

\* s.replace(old, new): every non-overlapping occurrence, left to right
RECURSIVE Replace(_, _, _)
Replace(s, old, new) ==
    LET i == Find(s, old, 1)
    IN  IF i = 0 THEN s
        ELSE SubSeq(s, 1, i - 1) \o new \o Replace(From(s, i + Len(old)), old, new)

\* s.split(sep): a sequence of strings, <<"">> for the empty string
RECURSIVE Split(_, _)
Split(s, sep) ==
    LET i == Find(s, sep, 1)
    IN  IF i = 0 THEN <<s>>
        ELSE <<SubSeq(s, 1, i - 1)>> \o Split(From(s, i + Len(sep)), sep)

\* sep.join(parts)
RECURSIVE Join(_, _)
Join(parts, sep) ==
    IF parts = <<>> THEN ""
    ELSE IF Len(parts) = 1 THEN parts[1]
    ELSE parts[1] \o sep \o Join(Tail(parts), sep)

UpperChars == "ABCDEFGHIJKLMNOPQRSTUVWXYZ"
LowerChars == "abcdefghijklmnopqrstuvwxyz"
Digits == "0123456789"

CharsOf(s) == {Ch(s, i) : i \in 1..Len(s)}

AlphaChars == CharsOf(UpperChars) \cup CharsOf(LowerChars)
AlnumChars == AlphaChars \cup CharsOf(Digits)

\* the lower-case letter of each upper-case letter
LowerOf == [c \in CharsOf(UpperChars) |-> Ch(LowerChars, Find(UpperChars, c, 1))]

LowerCh(c) == IF c \in DOMAIN LowerOf THEN LowerOf[c] ELSE c

\* s.lower()
RECURSIVE Lower(_)
Lower(s) == IF s = "" THEN "" ELSE LowerCh(Ch(s, 1)) \o Lower(From(s, 2))

IsAlpha(c) == c \in AlphaChars
IsAlnum(c) == c \in AlnumChars

\* [x for x in parts if x]
RECURSIVE NonEmpty(_)
NonEmpty(parts) ==
    IF parts = <<>> THEN <<>>
    ELSE (IF parts[1] = "" THEN <<>> ELSE <<parts[1]>>) \o NonEmpty(Tail(parts))

(***************************************************************************)
(* urllib.parse.urlparse and parse_qs, as far as the scraper uses them:    *)
(* scheme, netloc, path, query, fragment; ValueError on an unbalanced      *)
(* bracket in the netloc. The links of the model carry no ';', '%' or '+'. *)
(***************************************************************************)
SchemeChars == AlnumChars \cup {"+", "-", "."}

\* the end of the netloc: the first of / ? # at or after index 3, else the end
NetlocEnd(u) ==
    LET stops == {i \in 3..Len(u) : Ch(u, i) \in {"/", "?", "#"}}
    IN  IF stops = {} THEN Len(u) + 1 ELSE Min(stops)

\* urlsplit, last step: the query is what follows the first ? of the rest
SplitQuery(scheme, netloc, rest, fragment, qm) ==
    [py |-> "ParseResult", scheme |-> scheme, netloc |-> netloc,
     path |-> IF qm = 0 THEN rest ELSE SubSeq(rest, 1, qm - 1),
     query |-> IF qm = 0 THEN "" ELSE From(rest, qm + 1),
     fragment |-> fragment]

\* urlsplit: the fragment is what follows the first # of the rest
SplitFragment(scheme, netloc, rest, hash) ==
    IF hash = 0
    THEN SplitQuery(scheme, netloc, rest, "", Find(rest, "?", 1))
    ELSE SplitQuery(scheme, netloc, SubSeq(rest, 1, hash - 1), From(rest, hash + 1),
                    Find(SubSeq(rest, 1, hash - 1), "?", 1))

\* urlsplit: ValueError("Invalid IPv6 URL") on a netloc with one bracket only
CheckNetloc(scheme, netloc, rest) ==
    IF Contains(netloc, "[") # Contains(netloc, "]") THEN Raised
    ELSE SplitFragment(scheme, netloc, rest, Find(rest, "#", 1))

\* urlsplit: the netloc follows a leading //
SplitNetloc(scheme, rest) ==
    IF StartsWith(rest, "//")
    THEN CheckNetloc(scheme, SubSeq(rest, 3, NetlocEnd(rest) - 1), From(rest, NetlocEnd(rest)))
    ELSE CheckNetloc(scheme, "", rest)

\* urlsplit: the scheme is what precedes the first colon, when it is a letter followed
\* by scheme characters; it is lowercased
SplitScheme(url, colon) ==
    IF /\ colon > 1
       /\ IsAlpha(Ch(url, 1))
       /\ \A i \in 1..(colon - 1) : Ch(url, i) \in SchemeChars
    THEN SplitNetloc(Lower(SubSeq(url, 1, colon - 1)), From(url, colon + 1))
    ELSE SplitNetloc("", url)

urlparse(url) == SplitScheme(url, Find(url, ":", 1))

\* the printable ASCII characters, from code 32 to code 126; the grave accent
\* (code 96) cannot be written in a string of the model and is left out of it
Ascii == " !\"#$%&'()*+,-./0123456789:;<=>?@ABCDEFGHIJKLMNOPQRSTUVWXYZ[\\]^_ abcdefghijklmnopqrstuvwxyz{|}~"
HexDigits == "0123456789abcdef"

IsHex(c) == Find(HexDigits, LowerCh(c), 1) # 0
HexVal(c) == Find(HexDigits, LowerCh(c), 1) - 1

\* the character code of the escape %XY at the head of s, 0 when s has no escape
\* of a printable ASCII character there
EscapeCode(s) ==
    IF Len(s) >= 3 /\ Ch(s, 1) = "%" /\ IsHex(Ch(s, 2)) /\ IsHex(Ch(s, 3))
       /\ 16 * HexVal(Ch(s, 2)) + HexVal(Ch(s, 3)) \in (32..126) \ {96}
    THEN 16 * HexVal(Ch(s, 2)) + HexVal(Ch(s, 3))
    ELSE 0

\* urllib.parse.unquote over printable ASCII: each %XY becomes its character, a %
\* that starts no escape stays
RECURSIVE unquote(_)
unquote(s) ==
    IF s = "" THEN ""
    ELSE IF EscapeCode(s) # 0
    THEN Ch(Ascii, EscapeCode(s) - 31) \o unquote(From(s, 4))
    ELSE Ch(s, 1) \o unquote(From(s, 2))

\* parse_qs decodes names and values: + is a space, then the escapes
Decode(s) == unquote(Replace(s, "+", " "))

\* parse_qs(query).get(key, [""])[0]: the first non-blank value of `key`, decoded
RECURSIVE FirstValue(_, _)
FirstValue(pairs, key) ==
    IF pairs = <<>> THEN ""
    ELSE LET eq == Find(pairs[1], "=", 1)
             name == IF eq = 0 THEN pairs[1] ELSE SubSeq(pairs[1], 1, eq - 1)
             value == IF eq = 0 THEN "" ELSE From(pairs[1], eq + 1)
         IN  IF Decode(name) = key /\ value # "" THEN Decode(value)
             ELSE FirstValue(Tail(pairs), key)

query_get(query, key) == FirstValue(Split(query, "&"), key)

Str(s) == [py |-> "str", v |-> s]
Bool(b) == [py |-> "bool", v |-> b]
List(seq) == [py |-> "list", v |-> seq]

(***************************************************************************)
(* Agent4ScienceScraper._urls_are_same_file (main.py 392-420).             *)
(***************************************************************************)
\* lines 405-418 without the attachment-id rule of lines 405-412
SameAttachmentOrPath_no_id_rule(parsed1, parsed2, id1, id2) ==
    Bool(parsed1.netloc \o parsed1.path = parsed2.netloc \o parsed2.path)

\* lines 405-418 comparing host and path as a pair instead of lines 415-417
SameAttachmentOrPath_pairwise(parsed1, parsed2, id1, id2) ==
    IF /\ Contains(parsed1.path, "attachment")
       /\ Contains(parsed2.path, "attachment")
       /\ id1 # "" /\ id2 # "" /\ id1 = id2
    THEN Bool(TRUE)
    ELSE Bool(parsed1.netloc = parsed2.netloc /\ parsed1.path = parsed2.path)

\* lines 405-418: the same attachment id, else the same netloc + path
SameAttachmentOrPath(parsed1, parsed2, id1, id2) ==
    IF /\ Contains(parsed1.path, "attachment")
       /\ Contains(parsed2.path, "attachment")
       /\ id1 # "" /\ id2 # "" /\ id1 = id2
    THEN Bool(TRUE)
    ELSE IF parsed1.netloc \o parsed1.path = parsed2.netloc \o parsed2.path THEN Bool(TRUE)
    ELSE Bool(FALSE)

\* lines 401-418, given the two parse results; the ValueError of urlparse is not caught
SameParsed(parsed1, parsed2) ==
    IF parsed1 = Raised \/ parsed2 = Raised THEN Raised
    ELSE SameAttachmentOrPath(parsed1, parsed2,
                              query_get(parsed1.query, "id"), query_get(parsed2.query, "id"))

\* lines 398-399 testing url1 only
_urls_are_same_file_first_only(u1, u2) ==
    IF u1 = "" THEN Bool(FALSE)
    ELSE SameParsed(urlparse(u1), urlparse(u2))

_urls_are_same_file(u1, u2) ==
    IF u1 = "" \/ u2 = "" THEN Bool(FALSE)
    ELSE SameParsed(urlparse(u1), urlparse(u2))

(***************************************************************************)
(* Agent4ScienceScraper._normalize_github_repo_url (main.py 465-495).      *)
(***************************************************************************)
Last(seq) == seq[Len(seq)]

\* lines 481-483, given the part after the last colon without ".git", split at /
FromSshParts(parts) ==
    IF Len(parts) >= 2 THEN Str("https://github.com/" \o Join(parts, "/")) ELSE None

\* lines 491-495, given the path segments
FromPathParts(parts) ==
    IF Len(parts) < 2 THEN None
    ELSE Str("https://github.com/" \o parts[1] \o "/" \o Replace(parts[2], ".git", ""))

\* lines 487-495, given the parse result; the ValueError of urlparse is not caught
FromParsed(parsed) ==
    IF parsed = Raised THEN Raised
    ELSE IF ~Contains(Lower(parsed.netloc), "github.com") THEN None
    ELSE FromPathParts(NonEmpty(Split(parsed.path, "/")))

_normalize_github_repo_url(url) ==
    IF url = "" THEN None
    ELSE IF StartsWith(url, "git@") \/ StartsWith(url, "ssh://git@")
    THEN IF Contains(url, ":")
         THEN FromSshParts(Split(Replace(Last(Split(url, ":")), ".git", ""), "/"))
         ELSE None
    ELSE FromParsed(urlparse(IF Contains(url, "://") THEN url ELSE "https://" \o url))

(***************************************************************************)
(* The URLs given to _urls_are_same_file: an origin (scheme and host, or   *)
(* none), a path and up to MaxParams query parameters. The empty URL is    *)
(* the empty origin with the empty path and no parameter.                  *)
(***************************************************************************)
SeqsUpTo(S, n) == UNION {[1..k -> S] : k \in 0..n}

Origins == {"https://openreview.net", "HTTP://OpenReview.net", "openreview.net", ""}
Paths == {"/attachment", "/pdf", ""}
Params == {"id=A", "id=B", "name=s", "id="}

BuildUrl(origin, path, params) ==
    origin \o path \o (IF params = <<>> THEN "" ELSE "?" \o Join(params, "&"))

UrlInputs == {BuildUrl(o, p, q) : o \in Origins, p \in Paths, q \in SeqsUpTo(Params, MaxParams)}

(***************************************************************************)
(* The links given to _normalize_github_repo_url: one of the accepted      *)
(* shapes around a host, up to MaxSegments path segments and a suffix.     *)
(***************************************************************************)
GitShapes == {"https", "bare", "ssh"}
GitHosts == {"github.com", "GitHub.com", "gitlab.com"}
GitSegments == {"o", "r", "my.github.io", ""}
GitSuffixes == {"", ".git"}

BuildLink(shape, host, segs, suffix) ==
    CASE shape = "https" -> "https://" \o host \o "/" \o Join(segs, "/") \o suffix
      [] shape = "bare"  -> host \o "/" \o Join(segs, "/") \o suffix
      [] shape = "ssh"   -> "git@" \o host \o ":" \o Join(segs, "/") \o suffix

glink == BuildLink(gshape, ghost, gsegs, gsuffix)

(***************************************************************************)
(* The files of a directory under downloads/: a set of [name, state],      *)
(* state "complete" for a file written to its end (or a finished clone),   *)
(* "partial" for one whose write stopped mid-stream, "earlier" for one     *)
(* that an earlier run stored and this run has not touched.                *)
(***************************************************************************)
\* Path.exists() that never finds the file
Exists_never(dir, name) == FALSE

Exists(dir, name) == \E f \in dir : f.name = name
\* a cleanup that empties the directory
Unlink_all(dir, name) == {}

Unlink(dir, name) == {f \in dir : f.name # name}
Write(dir, name, state) == Unlink(dir, name) \cup {[name |-> name, state |-> state]}

\* next(dir.glob(f"{forum_id}.*"), None) finds a file
GlobForumId(dir, forum_id) == \E f \in dir : StartsWith(f.name, forum_id \o ".")

EmptyDisk == [pdfs |-> {}, reviews |-> {}, supp |-> {}, code |-> {}]

(***************************************************************************)
(* What the remote side and the local system answer to one call.           *)
(***************************************************************************)
Interrupted == [py |-> "KeyboardInterrupt"]
OSError == [py |-> "OSError"]

\* a note of the forum: its content["pdf"], "" when it has none
Note(pdf) == [content |-> [pdf |-> pdf]]

NotesAnswers(forum_id) ==
    {None,                                              \* get_all_notes raised
     List(<<>>),                                        \* no note
     List(<<Note("")>>),                                \* notes, none with a pdf
     List(<<Note(""), Note("/pdf/" \o forum_id \o ".pdf")>>)}

\* an anchor of the forum page: href and text
Anchor(href, text) == [href |-> href, text |-> text]

ForumPages(forum_id) ==
    {<<>>,
     <<Anchor("/pdf?id=" \o forum_id, "PDF"),
       Anchor("/attachment?id=" \o forum_id \o "&name=supplementary_material", "zip")>>}

(***************************************************************************)
(* The helpers of _download_supplementary (main.py 374-390).               *)
(***************************************************************************)
RECURSIVE _find_supplementary_link(_)
_find_supplementary_link(anchors) ==
    IF anchors = <<>> THEN None
    ELSE LET href_lower == Lower(anchors[1].href)
             text_lower == Lower(anchors[1].text)
         IN  IF Contains(href_lower, "attachment") /\ Contains(href_lower \o text_lower, "supp")
             THEN Str(anchors[1].href)
             ELSE _find_supplementary_link(Tail(anchors))

\* urljoin("https://openreview.net", link) for a link with a scheme, a network path
\* (//host/...), an absolute path, a query only, or a relative path
urljoin(base, link) ==
    IF link = "" THEN base
    ELSE IF urlparse(link).scheme # "" THEN link
    ELSE IF StartsWith(link, "//") THEN "https:" \o link
    ELSE IF StartsWith(link, "/") \/ StartsWith(link, "?") THEN base \o link
    ELSE base \o "/" \o link

\* s.rfind("."), 1-based; 0 when absent
RFindDot(s) ==
    LET dots == {k \in 1..Len(s) : Ch(s, k) = "."}
    IN  IF dots = {} THEN 0 ELSE CHOOSE k \in dots : \A m \in dots : m <= k

\* Path(path).suffix; Path drops the empty segments and the "." segments
PathSuffix(path) ==
    LET parts == SelectSeq(NonEmpty(Split(path, "/")), LAMBDA part : part # ".")
        name == IF parts = <<>> THEN "" ELSE Last(parts)
        dot == RFindDot(name)
    IN  IF dot > 1 /\ dot < Len(name) THEN From(name, dot) ELSE ""

\* a _guess_extension without the default of line 390
ExtensionOfPath_no_default(path, suffix) == suffix

\* lines 385-390, given the path of the URL and its Path.suffix
ExtensionOfPath(path, suffix) ==
    IF EndsWith(path, ".tar.gz") THEN ".tar.gz"
    ELSE IF EndsWith(path, ".tar") THEN ".tar"
    ELSE IF suffix # "" THEN suffix
    ELSE ".bin"

PathExtension(path) == ExtensionOfPath(path, PathSuffix(path))

_guess_extension(url) == PathExtension(urlparse(url).path)

(***************************************************************************)
(* The artifact steps (main.py 253-463). Each gives the value the method   *)
(* returns, or the exception that leaves it, the disk it leaves and the     *)
(* remote calls it made.                                                   *)
(***************************************************************************)
Outcome(result, d) == [result |-> result, disk |-> d, calls |-> {}, duplicate |-> FALSE]

\* the outcome of what follows a remote call `op`
Requested(op, outcome) == [outcome EXCEPT !.calls = @ \cup {op}]

\* lines 263-275; out: "ok", "error" (to_json or open raised), "write_error"
_save_reviews(d, forum_id, nts, out) ==
    LET review_path == forum_id \o ".json"
    IN  IF nts = None \/ nts.v = <<>> THEN Outcome(Bool(FALSE), d)
        ELSE CASE out = "ok" ->
                    Outcome(Bool(TRUE), [d EXCEPT !.reviews = Write(@, review_path, "complete")])
               [] out = "error" -> Outcome(Bool(FALSE), d)
               [] out = "write_error" ->
                    Outcome(Bool(FALSE), [d EXCEPT !.reviews = Write(@, review_path, "partial")])

\* lines 282-291: the first note whose content has a pdf, None when there is none
RECURSIVE PdfNote(_)
PdfNote(notelist) ==
    IF notelist = <<>> THEN None
    ELSE IF notelist[1].content.pdf # "" THEN notelist[1]
    ELSE PdfNote(Tail(notelist))

\* lines 277-323; out: "request_failed", "ok", "write_error", "interrupt"
_download_pdf(d, forum_id, nts, out) ==
    LET pdf_path == forum_id \o ".pdf"
    IN  IF nts = None \/ nts.v = <<>> THEN Outcome(Bool(FALSE), d)
        ELSE IF PdfNote(nts.v) = None THEN Outcome(Bool(FALSE), d)
        ELSE IF Exists(d.pdfs, pdf_path) THEN Outcome(Bool(TRUE), d)
        ELSE Requested("pdf",
               CASE out = "request_failed" -> Outcome(Bool(FALSE), d)
                 [] out = "ok" ->
                      Outcome(Bool(TRUE), [d EXCEPT !.pdfs = Write(@, pdf_path, "complete")])
                 [] out = "write_error" ->
                      Outcome(Bool(FALSE), [d EXCEPT !.pdfs = Unlink(@, pdf_path)])
                 [] out = "interrupt" ->
                      Outcome(Interrupted, [d EXCEPT !.pdfs = Write(@, pdf_path, "partial")]))

\* lines 354-372: supp_path is there already, or the request and the write
StoreSupplementary(d, supp_path, out) ==
    IF Exists(d.supp, supp_path) THEN Outcome(Bool(TRUE), d)
    ELSE Requested("supplementary",
           CASE out = "request_failed" -> Outcome(Bool(FALSE), d)
             [] out = "ok" ->
                  Outcome(Bool(TRUE), [d EXCEPT !.supp = Write(@, supp_path, "complete")])
             [] out = "write_error" ->
                  Outcome(Bool(FALSE), [d EXCEPT !.supp = Unlink(@, supp_path)])
             [] out = "interrupt" ->
                  Outcome(Interrupted, [d EXCEPT !.supp = Write(@, supp_path, "partial")]))

\* lines 349-351: the attachment is skipped as a duplicate of the code link
DuplicateSkip(d) == [Outcome(Bool(FALSE), d) EXCEPT !.duplicate = TRUE]

\* lines 348-353, given what _urls_are_same_file answered
UnlessDuplicate(d, duplicate, supp_path, out) ==
    IF duplicate = Raised THEN Outcome(Raised, d)
    ELSE IF duplicate = Bool(TRUE) THEN DuplicateSkip(d)
    ELSE StoreSupplementary(d, supp_path, out)

\* lines 346-353, given full_url
FetchAttachment(d, forum_id, code_link, full_url, out) ==
    UnlessDuplicate(d,
                    IF code_link # "" THEN _urls_are_same_file(full_url, code_link)
                    ELSE Bool(FALSE),
                    forum_id \o _guess_extension(full_url), out)

\* lines 341-346, given what _find_supplementary_link found
WithAttachmentLink(d, forum_id, code_link, attachment_link, out) ==
    IF attachment_link = None THEN Outcome(Bool(FALSE), d)
    ELSE FetchAttachment(d, forum_id, code_link,
                         urljoin("https://openreview.net", attachment_link.v), out)

\* lines 325-372; forum_page: None when the page request failed, else its anchors;
\* out: "request_failed", "ok", "write_error", "interrupt"
_download_supplementary(d, forum_id, code_link, forum_page, out) ==
    IF GlobForumId(d.supp, forum_id) THEN Outcome(Bool(TRUE), d)
    ELSE Requested("forum_page",
           IF forum_page = None THEN Outcome(Bool(FALSE), d)
           ELSE WithAttachmentLink(d, forum_id, code_link,
                                   _find_supplementary_link(forum_page.v), out))

\* lines 422-463; out: "ok", "timeout", "clone_failed", "git_missing", "os_error",
\* "interrupt"
_clone_code_repo(d, forum_id, code_link, supplementary_link, out) ==
    IF code_link = "" THEN Outcome(Bool(FALSE), d)
    ELSE IF supplementary_link # "" /\ code_link = supplementary_link
    THEN Outcome(Bool(FALSE), d)
    ELSE LET normalized_repo == _normalize_github_repo_url(code_link)
         IN  IF normalized_repo = Raised THEN Outcome(Raised, d)
             ELSE IF normalized_repo = None THEN Outcome(Bool(FALSE), d)
             ELSE IF Exists(d.code, forum_id) THEN Outcome(Bool(TRUE), d)
             ELSE Requested("clone",
                    CASE out = "ok" ->
                           Outcome(Bool(TRUE),
                                   [d EXCEPT !.code = Write(@, forum_id, "complete")])
                      [] out \in {"timeout", "clone_failed"} ->
                           Outcome(Bool(FALSE), [d EXCEPT !.code = Unlink(@, forum_id)])
                      [] out = "git_missing" -> Outcome(Bool(FALSE), d)
                      [] out = "os_error" -> Outcome(OSError, d)
                      [] out = "interrupt" ->
                           Outcome(Interrupted,
                                   [d EXCEPT !.code = Write(@, forum_id, "partial")]))

(***************************************************************************)
(* The submissions table and Agent4ScienceScraper._parse_table             *)
(* (main.py 148-217).                                                      *)
(*                                                                         *)
(* A table element is its header row (the texts of its th cells), its data *)
(* rows, and whether it has a thead (holding the header row) and a tbody   *)
(* (holding the data rows, and the header row too when there is no thead). *)
(* A cell is its tag, its stripped text and the href of its first anchor   *)
(* ("" when it has none).                                                  *)
(***************************************************************************)
METADATA_FIELDS ==
    <<"forum_id", "title", "authors", "status", "primary_topic", "secondary_topic",
      "human_review_score", "ai_reviewer_1_score", "ai_reviewer_2_score",
      "ai_reviewer_3_score", "hypothesis_development_label", "openreview_link",
      "supplementary_link", "code_link">>

FieldNames == {METADATA_FIELDS[i] : i \in 1..Len(METADATA_FIELDS)}

HEADER_MAP ==
    ("forumid" :> "forum_id") @@ ("forum" :> "forum_id") @@ ("title" :> "title")
    @@ ("authors" :> "authors") @@ ("status" :> "status")
    @@ ("primarytopic" :> "primary_topic") @@ ("secondarytopic" :> "secondary_topic")
    @@ ("humanreviewscore" :> "human_review_score")
    @@ ("aireviewer1score" :> "ai_reviewer_1_score")
    @@ ("aireviewer2score" :> "ai_reviewer_2_score")
    @@ ("aireviewer3score" :> "ai_reviewer_3_score")
    @@ ("hypothesisdevelopmentlabel" :> "hypothesis_development_label")
    @@ ("openreviewlink" :> "openreview_link") @@ ("openreview" :> "openreview_link")
    @@ ("supplementarylink" :> "supplementary_link")
    @@ ("supplementary" :> "supplementary_link")
    @@ ("codelink" :> "code_link") @@ ("code" :> "code_link")

\* "".join(char for char in s if char.isalnum())
RECURSIVE KeepAlnum(_)
KeepAlnum(s) ==
    IF s = "" THEN ""
    ELSE (IF IsAlnum(Ch(s, 1)) THEN Ch(s, 1) ELSE "") \o KeepAlnum(From(s, 2))

\* s.strip(), for the blanks the model's strings carry
RECURSIVE Strip(_)
Strip(s) ==
    IF s = "" THEN ""
    ELSE IF Ch(s, 1) = " " THEN Strip(From(s, 2))
    ELSE IF Ch(s, Len(s)) = " " THEN Strip(SubSeq(s, 1, Len(s) - 1))
    ELSE s

\* _map_header looking the header up as it is written, without line 188
_map_header_as_written(header) ==
    IF header \in DOMAIN HEADER_MAP THEN Str(HEADER_MAP[header]) ELSE None

\* the canonical field of a header, or None
_map_header(header) ==
    LET normalized == KeepAlnum(Lower(header))
    IN  IF normalized \in DOMAIN HEADER_MAP THEN Str(HEADER_MAP[normalized]) ELSE None

link_fields == {"openreview_link", "supplementary_link", "code_link"}

_extract_cell_value(cell, target) ==
    IF target \in link_fields /\ cell.href # "" THEN Strip(cell.href) ELSE cell.text

\* the forum id of an OpenReview link: its id query parameter; the path fallback of
\* lines 211-216 assigns nothing
_derive_forum_id(openreview_link) ==
    LET parsed == urlparse(openreview_link)
    IN  IF parsed = Raised THEN Raised ELSE Str(query_get(parsed.query, "id"))

EmptyRecord == [field \in FieldNames |-> ""]

\* lines 167-172: the record of a row, cell by cell from index idx on
RECURSIVE FillRecord(_, _, _, _)
FillRecord(record, cells, column_targets, idx) ==
    IF idx > Len(cells) THEN record
    ELSE LET target == IF idx <= Len(column_targets) THEN column_targets[idx] ELSE None
         IN  FillRecord(
                 IF target = None THEN record
                 ELSE [record EXCEPT ![target.v] = _extract_cell_value(cells[idx], target.v)],
                 cells, column_targets, idx + 1)

\* cell.find_all("th") of a row
RECURSIVE ThCells(_)
ThCells(cells) ==
    IF cells = <<>> THEN <<>>
    ELSE (IF cells[1].tag = "th" THEN <<cells[1]>> ELSE <<>>) \o ThCells(Tail(cells))

HeaderRow(t) == [i \in 1..Len(t.header) |-> [tag |-> "th", text |-> t.header[i], href |-> ""]]

\* table.find_all("tr"), in document order
AllRows(t) == <<HeaderRow(t)>> \o t.rows

\* lines 149-154
HeaderCells(t) == ThCells(AllRows(t)[1])

\* line 160
BodyRows(t) ==
    IF t.tbody THEN (IF t.thead THEN t.rows ELSE AllRows(t)) ELSE Tail(AllRows(t))

\* RowDiscarded without the second condition of line 176
RowDiscarded_all_empty_only(record) ==
    \A field \in FieldNames : record[field] = ""

\* lines 174-177: the row is skipped
RowDiscarded(record) ==
    \/ \A field \in FieldNames : record[field] = ""
    \/ (record["forum_id"] = "" /\ record["openreview_link"] = "")

\* lines 163-183, the loop over the body rows from row k on: the list of records,
\* or Raised when _derive_forum_id raises
RECURSIVE ParseRows(_, _, _, _)
ParseRows(body_rows, column_targets, k, acc) ==
    IF k > Len(body_rows) THEN List(acc)
    ELSE LET cells == body_rows[k]
             record == FillRecord(EmptyRecord, cells, column_targets, 1)
         IN  IF cells = <<>> THEN ParseRows(body_rows, column_targets, k + 1, acc)
             ELSE IF RowDiscarded(record)
             THEN ParseRows(body_rows, column_targets, k + 1, acc)
             ELSE IF record["forum_id"] = "" /\ record["openreview_link"] # ""
             THEN LET derived == _derive_forum_id(record["openreview_link"])
                  IN  IF derived = Raised THEN Raised
                      ELSE ParseRows(body_rows, column_targets, k + 1,
                                     Append(acc, [record EXCEPT !["forum_id"] = derived.v]))
             ELSE ParseRows(body_rows, column_targets, k + 1, Append(acc, record))

\* line 157: [self._map_header(header) for header in headers]
RECURSIVE MapHeaders(_)
MapHeaders(header_cells) ==
    IF header_cells = <<>> THEN <<>>
    ELSE <<_map_header(header_cells[1].text)>> \o MapHeaders(Tail(header_cells))

_parse_table(t) == ParseRows(BodyRows(t), MapHeaders(HeaderCells(t)), 1, <<>>)

(***************************************************************************)
(* The tables given to _parse_table.                                       *)
(***************************************************************************)
HeaderRows ==
    {<<"Forum ID", "OpenReview Link">>, <<"Title", "OpenReview">>, <<"Notes", "forum">>,
     <<"AI Reviewer 1 Score", "forum_id">>}

TextCell(text) == [tag |-> "td", text |-> text, href |-> ""]
AnchorCell(text, href) == [tag |-> "td", text |-> text, href |-> href]

CellPool ==
    {TextCell(""),
     AnchorCell("paper", " https://openreview.net/forum?id=A1&noteId=N1"),
     AnchorCell("paper", "https://openreview.net/forum/A1")}

RowPool == SeqsUpTo(CellPool, 2)

Tables ==
    {[thead |-> th, tbody |-> tb, header |-> h, rows |-> r] :
        th \in BOOLEAN, tb \in BOOLEAN, h \in HeaderRows, r \in SeqsUpTo(RowPool, MaxRows)}

NoTable == [thead |-> FALSE, tbody |-> FALSE, header |-> <<>>, rows |-> <<>>]

(***************************************************************************)
(* run and _process_papers (main.py 114-124, 225-251) as a state machine:  *)
(* one action per method call of the loop body.                            *)
(***************************************************************************)
PaperHeader == <<"Forum ID", "OpenReview Link", "Code">>

PaperRows ==
    {<<TextCell("A1"), AnchorCell("paper", "https://openreview.net/forum?id=A1"),
       AnchorCell("code", "https://github.com/o/r.git")>>,
     <<TextCell(""), AnchorCell("paper", "https://openreview.net/forum/B2"), TextCell("")>>,
     <<TextCell("C3"), AnchorCell("paper", "https://openreview.net/forum?id=C3"),
       AnchorCell("code", "https://[github.com/o/r")>>,
     <<TextCell("D4"), AnchorCell("paper", "https://openreview.net/forum?id=D4"),
       AnchorCell("zip", "https://openreview.net/attachment?id=D4&name=supplementary_material")>>}

Pages ==
    {[kind |-> "request_failed", table |-> NoTable], [kind |-> "no_table", table |-> NoTable]}
    \cup {[kind |-> "table",
           table |-> [thead |-> TRUE, tbody |-> TRUE, header |-> PaperHeader, rows |-> r]] :
            r \in SeqsUpTo(PaperRows, MaxPapers)}

\* the disk before the run: empty, or holding what an earlier run stored for A1
InitialDisks ==
    {EmptyDisk,
     [pdfs |-> {[name |-> "A1.pdf", state |-> "earlier"]},
      reviews |-> {[name |-> "A1.json", state |-> "earlier"]},
      supp |-> {[name |-> "A1.bin", state |-> "earlier"]},
      code |-> {[name |-> "A1", state |-> "earlier"]}]}

ZeroCounts == [total_papers |-> 0, pdfs |-> 0, reviews |-> 0, supplementary |-> 0, repos |-> 0]

\* lines 228, 244, 249: the fields of the record at hand
ForumId == Strip(metadata.v[cur]["forum_id"])
CodeLink == Strip(metadata.v[cur]["code_link"])
SuppLink == Strip(metadata.v[cur]["supplementary_link"])

\* a main that logs and re-raises whatever leaves run
EndOf_reraise(exception) == "raised"

\* how main ends when an exception leaves run (lines 525-532)
EndOf(exception) == IF exception = Interrupted THEN "interrupted" ELSE "raised"

Falsy(nts) == nts = None \/ nts.v = <<>>

\* a run that never takes the return of line 119
NoMetadata_never(parsed) == FALSE

\* line 117: `not metadata`, for the list _fetch_metadata returned
NoMetadata(parsed) == parsed.v = <<>>

\* a remote call: the operation and the forum id it is about
Call(op, forum_id) == [op |-> op, forum_id |-> forum_id]

\* main, lines 528-532: the exception leaves run and main ends as EndOf says
Escape(exception) == pc' = EndOf(exception) /\ escaped' = exception

\* the remote call is followed by time.sleep(NETWORK_DELAY): the requests of _safe_get
\* (line 517) and the notes lookup (lines 256, 260) are, the git clone of lines 439-445
\* is not
Delayed(op) == op # "clone"

\* the remote calls `ops` of a step, each issued after the one before it was through
Pace(ops) ==
    /\ hurried' = (hurried \/ (ops # {} /\ awaiting_delay))
    /\ awaiting_delay' = IF ops = {} THEN awaiting_delay ELSE \E op \in ops : ~Delayed(op)

\* run, lines 114-122: fetch and parse the table, abort without rows, else count the
\* rows and save metadata.csv; the user may interrupt the fetch
FetchMetadata ==
    /\ pc = "start"
    /\ \E parsed \in {IF page.kind = "table" THEN _parse_table(page.table) ELSE List(<<>>),
                      Interrupted} :
         IF parsed \in {Raised, Interrupted}
         THEN Escape(parsed) /\ UNCHANGED <<metadata, csv, cur, step, counts>>
         ELSE IF NoMetadata(parsed)
         THEN pc' = "aborted" /\ metadata' = parsed
              /\ UNCHANGED <<csv, cur, step, counts, escaped>>
         ELSE /\ pc' = "process"
              /\ metadata' = parsed
              /\ counts' = [counts EXCEPT !.total_papers = Len(parsed.v)]
              /\ csv' = parsed
              /\ cur' = 1
              /\ step' = "notes"
              /\ escaped' = escaped
    /\ remote' = remote \cup {Call("table", "")}
    /\ Pace({"table"})
    /\ UNCHANGED <<page, skipped, notes, disk, urlVars, gitVars, parseVars, downVars,
                   scrapeVars, extVars, mainVars>>

\* a loop that starts over with the record at hand
NextRecord_again == cur' = cur /\ step' = "notes" /\ pc' = pc

\* the end of a loop iteration: the next record, or _print_summary and the return
NextRecord ==
    IF cur < Len(metadata.v)
    THEN cur' = cur + 1 /\ step' = "notes" /\ pc' = pc
    ELSE cur' = cur /\ step' = "end" /\ pc' = "done"

\* lines 228-231: a row without forum_id is skipped
SkipRow ==
    /\ pc = "process" /\ step = "notes"
    /\ ForumId = ""
    /\ NextRecord
    /\ UNCHANGED <<page, skipped, metadata, csv, notes, counts, disk, remote, escaped,
                   awaiting_delay, hurried, urlVars, gitVars, parseVars, downVars, scrapeVars,
                   extVars, mainVars>>

\* lines 234-235, 240-241 with _fetch_notes (253-261), which the user may interrupt
FetchNotes ==
    /\ pc = "process" /\ step = "notes"
    /\ ForumId # ""
    /\ \E answer \in NotesAnswers(ForumId) \cup {Interrupted} :
         /\ notes' = answer
         /\ remote' = remote \cup {Call("notes", ForumId)}
         /\ Pace({"notes"})
         /\ IF answer = Interrupted
            THEN Escape(answer) /\ step' = step
            ELSE /\ step' = IF Falsy(answer) THEN "supp" ELSE "reviews"
                 /\ UNCHANGED <<pc, escaped>>
    /\ UNCHANGED <<page, skipped, metadata, csv, cur, counts, disk, urlVars, gitVars, parseVars,
                   downVars, scrapeVars, extVars, mainVars>>

\* lines 236-237
SaveReviews ==
    /\ pc = "process" /\ step = "reviews"
    /\ \E out \in {"ok", "error", "write_error"} :
         \E r \in {_save_reviews(disk, ForumId, notes, out)} :
             /\ disk' = r.disk
             /\ remote' = remote \cup {Call(op, ForumId) : op \in r.calls}
             /\ Pace(r.calls)
             /\ counts' = IF r.result = Bool(TRUE)
                          THEN [counts EXCEPT !.reviews = @ + 1] ELSE counts
    /\ step' = "pdf"
    /\ UNCHANGED <<pc, page, skipped, metadata, csv, cur, notes, escaped, urlVars, gitVars,
                   parseVars, downVars, scrapeVars, extVars, mainVars>>

\* lines 238-239
DownloadPdf ==
    /\ pc = "process" /\ step = "pdf"
    /\ \E out \in {"request_failed", "ok", "write_error", "interrupt"} :
         \E r \in {_download_pdf(disk, ForumId, notes, out)} :
             /\ disk' = r.disk
             /\ remote' = remote \cup {Call(op, ForumId) : op \in r.calls}
             /\ Pace(r.calls)
             /\ IF r.result.py = "bool"
                THEN /\ counts' = IF r.result.v THEN [counts EXCEPT !.pdfs = @ + 1] ELSE counts
                     /\ step' = "supp"
                     /\ UNCHANGED <<pc, escaped>>
                ELSE Escape(r.result) /\ UNCHANGED <<counts, step>>
    /\ UNCHANGED <<page, skipped, metadata, csv, cur, notes, urlVars, gitVars, parseVars, downVars,
                   scrapeVars, extVars, mainVars>>

\* lines 244-246
DownloadSupplementary ==
    /\ pc = "process" /\ step = "supp"
    /\ \E forum_page \in {None} \cup {List(anchors) : anchors \in ForumPages(ForumId)},
          out \in {"request_failed", "ok", "write_error", "interrupt"} :
         \E r \in {_download_supplementary(disk, ForumId, CodeLink, forum_page, out)} :
             /\ disk' = r.disk
             /\ remote' = remote \cup {Call(op, ForumId) : op \in r.calls}
             /\ Pace(r.calls)
             /\ skipped' = IF r.duplicate THEN skipped \cup {ForumId} ELSE skipped
             /\ IF r.result.py = "bool"
                THEN /\ counts' = IF r.result.v
                                  THEN [counts EXCEPT !.supplementary = @ + 1] ELSE counts
                     /\ step' = "clone"
                     /\ UNCHANGED <<pc, escaped>>
                ELSE Escape(r.result) /\ UNCHANGED <<counts, step>>
    /\ UNCHANGED <<page, metadata, csv, cur, notes, urlVars, gitVars, parseVars, downVars,
                   scrapeVars, extVars, mainVars>>

\* lines 249-251, then the next iteration or lines 124 and 527
CloneCodeRepo ==
    /\ pc = "process" /\ step = "clone"
    /\ \E out \in {"ok", "timeout", "clone_failed", "git_missing", "os_error", "interrupt"} :
         \E r \in {_clone_code_repo(disk, ForumId, CodeLink, SuppLink, out)} :
             /\ disk' = r.disk
             /\ remote' = remote \cup {Call(op, ForumId) : op \in r.calls}
             /\ Pace(r.calls)
             /\ IF r.result.py = "bool"
                THEN /\ counts' = IF r.result.v THEN [counts EXCEPT !.repos = @ + 1] ELSE counts
                     /\ NextRecord
                     /\ escaped' = escaped
                ELSE Escape(r.result) /\ UNCHANGED <<counts, step, cur>>
    /\ UNCHANGED <<page, skipped, metadata, csv, notes, urlVars, gitVars, parseVars, downVars,
                   scrapeVars, extVars, mainVars>>

(***************************************************************************)
(* download_papers.py: the loop of main (lines 435-460) over the papers,   *)
(* as far as the PDF of each paper goes: download_paper lines 276-283      *)
(* calling download_file (lines 146-167) with its default max_retries.     *)
(***************************************************************************)
max_retries == 3

ForumIdPool == <<"A1", "B2", "C3", "D4">>

\* what one pass of the try block can do: requests.get or raise_for_status raises, the
\* body is written to its end, iter_content or write raises after open(filepath, 'wb')
\* created the file, or the process is interrupted during the write
AttemptOutcomes == {"request_failed", "ok", "write_error", "interrupt"}

\* the script is started (again): main reaches the loop over forum_ids
StartScript ==
    /\ dpc \in {"start", "done"}
    /\ runs < MaxRuns
    /\ runs' = runs + 1
    /\ dpc' = "paper"
    /\ paper_idx' = 1
    /\ attempt' = 0
    /\ dresult' = NotRun
    /\ UNCHANGED <<forum_ids, pdf_file, requests, call_requests, sleeps, urlVars, gitVars,
                   parseVars, runVars, scrapeVars, extVars, mainVars>>

\* main, lines 435-460: the next paper of the loop, or its end
NextPaper ==
    IF paper_idx < Len(forum_ids)
    THEN paper_idx' = paper_idx + 1 /\ dpc' = "paper"
    ELSE paper_idx' = paper_idx /\ dpc' = "done"

\* download_paper, lines 279-283: download_file is called unless pdf_path exists
DownloadPaperPdf ==
    /\ dpc = "paper"
    /\ IF pdf_file[paper_idx] = "absent"
       THEN /\ dpc' = "loop" /\ attempt' = 0 /\ paper_idx' = paper_idx
            /\ call_requests' = 0 /\ sleeps' = 0
       ELSE NextPaper /\ UNCHANGED <<attempt, call_requests, sleeps>>
    /\ UNCHANGED <<runs, forum_ids, pdf_file, requests, dresult, urlVars, gitVars, parseVars,
                   runVars, scrapeVars, extVars, mainVars>>

\* a download_file that gives up at the first failure
RetryLeft_never(attempt_no) == FALSE

\* line 161: this was not the last attempt
RetryLeft(attempt_no) == attempt_no < max_retries - 1

\* download_file, lines 151-166: one pass of the retry loop; download_paper drops the
\* value returned (line 281); KeyboardInterrupt is no Exception and ends the script
DownloadAttempt ==
    /\ dpc = "loop"
    /\ attempt < max_retries
    /\ requests' = requests + 1
    /\ call_requests' = call_requests + 1
    /\ \E out \in AttemptOutcomes :
         /\ pdf_file' = [pdf_file EXCEPT ![paper_idx] =
                            CASE out = "request_failed" -> @
                              [] out = "ok" -> "complete"
                              [] out \in {"write_error", "interrupt"} -> "partial"]
         /\ IF out = "ok"
            THEN dresult' = Bool(TRUE) /\ NextPaper /\ UNCHANGED <<attempt, sleeps>>
            ELSE IF out = "interrupt"
            THEN /\ dresult' = Interrupted /\ dpc' = "done"
                 /\ UNCHANGED <<attempt, paper_idx, sleeps>>
            ELSE IF RetryLeft(attempt)
            THEN /\ attempt' = attempt + 1 /\ sleeps' = sleeps + 1
                 /\ UNCHANGED <<dresult, dpc, paper_idx>>
            ELSE dresult' = Bool(FALSE) /\ NextPaper /\ UNCHANGED <<attempt, sleeps>>
    /\ UNCHANGED <<runs, forum_ids, urlVars, gitVars, parseVars, runVars, scrapeVars, extVars,
                   mainVars>>

(***************************************************************************)
(* The pure functions as actions: the state draws the arguments, the       *)
(* action applies the function.                                            *)
(***************************************************************************)
UrlsAreSameFile ==
    /\ upc = "call"
    /\ same' = _urls_are_same_file(url1, url2)
    /\ upc' = "done"
    /\ UNCHANGED <<url1, url2, gitVars, parseVars, runVars, downVars, scrapeVars, extVars,
                   mainVars>>

NormalizeGithubRepoUrl ==
    /\ gpc = "call"
    /\ gresult' = _normalize_github_repo_url(glink)
    /\ gpc' = "done"
    /\ UNCHANGED <<gshape, ghost, gsegs, gsuffix, urlVars, parseVars, runVars, downVars,
                   scrapeVars, extVars, mainVars>>

ParseTable ==
    /\ ppc = "call"
    /\ records' = _parse_table(table)
    /\ ppc' = "done"
    /\ UNCHANGED <<table, urlVars, gitVars, runVars, downVars, scrapeVars, extVars, mainVars>>

(***************************************************************************)
(* Specifications. Spec is a run of main; SpecUrl, SpecGit and SpecParse   *)
(* apply one function to every argument of its input set.                  *)
(***************************************************************************)
NoPage == [kind |-> "none", table |-> NoTable]
NoLink == [kind |-> "none", url |-> "", id |-> ""]
NoSources == [source \in {} |-> <<>>]
NoCsv == [kind |-> "none", v |-> "", link_column |-> FALSE, columns |-> 0, rows |-> <<>>]

Init ==
    /\ pc = "start" /\ page \in Pages /\ metadata = NotRun /\ csv = NotRun
    /\ cur = 0 /\ step = "fetch" /\ notes = NotRun /\ counts = ZeroCounts
    /\ disk \in InitialDisks /\ remote = {} /\ escaped = NotRun /\ skipped = {}
    /\ awaiting_delay = FALSE /\ hurried = FALSE
    /\ upc = "idle" /\ url1 = "" /\ url2 = "" /\ same = NotRun
    /\ gpc = "idle" /\ gshape = "https" /\ ghost = "" /\ gsegs = <<>> /\ gsuffix = ""
    /\ gresult = NotRun
    /\ ppc = "idle" /\ table = NoTable /\ records = NotRun
    /\ dpc = "idle" /\ runs = 0 /\ forum_ids = <<>> /\ paper_idx = 0 /\ pdf_file = <<>>
    /\ attempt = 0 /\ requests = 0 /\ dresult = NotRun /\ call_requests = 0 /\ sleeps = 0
    /\ fpc = "idle" /\ flink = NoLink /\ derived_ids = <<>> /\ extracted_ids = <<>>
    /\ cpc = "idle" /\ csv_text = NoCsv /\ df = NotRun
    /\ xpc = "idle" /\ xurl = "" /\ xforum = "" /\ xext = NotRun /\ xdir = {} /\ xfound = NotRun
    /\ mpc = "idle" /\ sources = NoSources /\ consulted = <<>> /\ main_ids = <<>>
    /\ ids_written = FALSE /\ midx = 0 /\ success_count = 0 /\ failed_count = 0

Next ==
    \/ FetchMetadata
    \/ SkipRow
    \/ FetchNotes
    \/ SaveReviews
    \/ DownloadPdf
    \/ DownloadSupplementary
    \/ CloneCodeRepo

Spec == Init /\ [][Next]_vars

InitUrl ==
    /\ upc = "call" /\ url1 \in UrlInputs /\ url2 \in UrlInputs /\ same = NotRun
    /\ gpc = "idle" /\ gshape = "https" /\ ghost = "" /\ gsegs = <<>> /\ gsuffix = ""
    /\ gresult = NotRun
    /\ ppc = "idle" /\ table = NoTable /\ records = NotRun
    /\ pc = "idle" /\ page = NoPage /\ metadata = NotRun /\ csv = NotRun
    /\ cur = 0 /\ step = "idle" /\ notes = NotRun /\ counts = ZeroCounts /\ disk = EmptyDisk
    /\ remote = {} /\ escaped = NotRun /\ skipped = {}
    /\ awaiting_delay = FALSE /\ hurried = FALSE
    /\ dpc = "idle" /\ runs = 0 /\ forum_ids = <<>> /\ paper_idx = 0 /\ pdf_file = <<>>
    /\ attempt = 0 /\ requests = 0 /\ dresult = NotRun /\ call_requests = 0 /\ sleeps = 0
    /\ fpc = "idle" /\ flink = NoLink /\ derived_ids = <<>> /\ extracted_ids = <<>>
    /\ cpc = "idle" /\ csv_text = NoCsv /\ df = NotRun
    /\ xpc = "idle" /\ xurl = "" /\ xforum = "" /\ xext = NotRun /\ xdir = {} /\ xfound = NotRun
    /\ mpc = "idle" /\ sources = NoSources /\ consulted = <<>> /\ main_ids = <<>>
    /\ ids_written = FALSE /\ midx = 0 /\ success_count = 0 /\ failed_count = 0

SpecUrl == InitUrl /\ [][UrlsAreSameFile]_vars

InitGit ==
    /\ gpc = "call" /\ gshape \in GitShapes /\ ghost \in GitHosts
    /\ gsegs \in SeqsUpTo(GitSegments, MaxSegments) /\ gsuffix \in GitSuffixes
    /\ gresult = NotRun
    /\ upc = "idle" /\ url1 = "" /\ url2 = "" /\ same = NotRun
    /\ ppc = "idle" /\ table = NoTable /\ records = NotRun
    /\ pc = "idle" /\ page = NoPage /\ metadata = NotRun /\ csv = NotRun
    /\ cur = 0 /\ step = "idle" /\ notes = NotRun /\ counts = ZeroCounts /\ disk = EmptyDisk
    /\ remote = {} /\ escaped = NotRun /\ skipped = {}
    /\ awaiting_delay = FALSE /\ hurried = FALSE
    /\ dpc = "idle" /\ runs = 0 /\ forum_ids = <<>> /\ paper_idx = 0 /\ pdf_file = <<>>
    /\ attempt = 0 /\ requests = 0 /\ dresult = NotRun /\ call_requests = 0 /\ sleeps = 0
    /\ fpc = "idle" /\ flink = NoLink /\ derived_ids = <<>> /\ extracted_ids = <<>>
    /\ cpc = "idle" /\ csv_text = NoCsv /\ df = NotRun
    /\ xpc = "idle" /\ xurl = "" /\ xforum = "" /\ xext = NotRun /\ xdir = {} /\ xfound = NotRun
    /\ mpc = "idle" /\ sources = NoSources /\ consulted = <<>> /\ main_ids = <<>>
    /\ ids_written = FALSE /\ midx = 0 /\ success_count = 0 /\ failed_count = 0

SpecGit == InitGit /\ [][NormalizeGithubRepoUrl]_vars

InitParse ==
    /\ ppc = "call" /\ table \in Tables /\ records = NotRun
    /\ upc = "idle" /\ url1 = "" /\ url2 = "" /\ same = NotRun
    /\ gpc = "idle" /\ gshape = "https" /\ ghost = "" /\ gsegs = <<>> /\ gsuffix = ""
    /\ gresult = NotRun
    /\ pc = "idle" /\ page = NoPage /\ metadata = NotRun /\ csv = NotRun
    /\ cur = 0 /\ step = "idle" /\ notes = NotRun /\ counts = ZeroCounts /\ disk = EmptyDisk
    /\ remote = {} /\ escaped = NotRun /\ skipped = {}
    /\ awaiting_delay = FALSE /\ hurried = FALSE
    /\ dpc = "idle" /\ runs = 0 /\ forum_ids = <<>> /\ paper_idx = 0 /\ pdf_file = <<>>
    /\ attempt = 0 /\ requests = 0 /\ dresult = NotRun /\ call_requests = 0 /\ sleeps = 0
    /\ fpc = "idle" /\ flink = NoLink /\ derived_ids = <<>> /\ extracted_ids = <<>>
    /\ cpc = "idle" /\ csv_text = NoCsv /\ df = NotRun
    /\ xpc = "idle" /\ xurl = "" /\ xforum = "" /\ xext = NotRun /\ xdir = {} /\ xfound = NotRun
    /\ mpc = "idle" /\ sources = NoSources /\ consulted = <<>> /\ main_ids = <<>>
    /\ ids_written = FALSE /\ midx = 0 /\ success_count = 0 /\ failed_count = 0

SpecParse == InitParse /\ [][ParseTable]_vars

InitDownload ==
    /\ dpc = "start" /\ runs = 0
    /\ forum_ids \in {SubSeq(ForumIdPool, 1, n) : n \in 1..MaxDownloads}
    /\ paper_idx = 0
    /\ pdf_file \in [1..Len(forum_ids) -> {"absent", "complete"}]
    /\ attempt = 0 /\ requests = 0 /\ dresult = NotRun /\ call_requests = 0 /\ sleeps = 0
    /\ fpc = "idle" /\ flink = NoLink /\ derived_ids = <<>> /\ extracted_ids = <<>>
    /\ cpc = "idle" /\ csv_text = NoCsv /\ df = NotRun
    /\ xpc = "idle" /\ xurl = "" /\ xforum = "" /\ xext = NotRun /\ xdir = {} /\ xfound = NotRun
    /\ mpc = "idle" /\ sources = NoSources /\ consulted = <<>> /\ main_ids = <<>>
    /\ ids_written = FALSE /\ midx = 0 /\ success_count = 0 /\ failed_count = 0
    /\ upc = "idle" /\ url1 = "" /\ url2 = "" /\ same = NotRun
    /\ gpc = "idle" /\ gshape = "https" /\ ghost = "" /\ gsegs = <<>> /\ gsuffix = ""
    /\ gresult = NotRun
    /\ ppc = "idle" /\ table = NoTable /\ records = NotRun
    /\ pc = "idle" /\ page = NoPage /\ metadata = NotRun /\ csv = NotRun
    /\ cur = 0 /\ step = "idle" /\ notes = NotRun /\ counts = ZeroCounts /\ disk = EmptyDisk
    /\ remote = {} /\ escaped = NotRun /\ skipped = {}
    /\ awaiting_delay = FALSE /\ hurried = FALSE

NextDownload ==
    \/ StartScript
    \/ DownloadPaperPdf
    \/ DownloadAttempt

SpecDownload == InitDownload /\ [][NextDownload]_vars

(***************************************************************************)
(* Forum-id extraction: Agent4ScienceScraper._derive_forum_id (main.py     *)
(* 200-217, modelled above) and extract_forum_id (scrape_metadata.py       *)
(* 52-64).                                                                 *)
(***************************************************************************)
MaxIdLen == 2       \* characters of the id of a generated forum link
MaxCalls == 2       \* calls of each extraction function on one link

\* the length from which the second pattern of extract_forum_id takes a run of id
\* characters for an id
MinDirectIdLen == 20

\* what \s matches in the strings of the model
Whitespace == {" ", "\t", "\n", "\r", "\f"}

\* [a-zA-Z0-9_-]
IdChars == AlnumChars \cup {"_", "-"}

\* the longest run of characters other than & and whitespace from index i on: the
\* group ([^&\s]+) matched at i
ValueRun(s, i) ==
    LET stops == {j \in i..Len(s) : Ch(s, j) \in {"&"} \cup Whitespace}
    IN  SubSeq(s, i, IF stops = {} THEN Len(s) ELSE Min(stops) - 1)

\* the longest run of id characters from index i on
IdRun(s, i) ==
    LET stops == {j \in i..Len(s) : Ch(s, j) \notin IdChars}
    IN  SubSeq(s, i, IF stops = {} THEN Len(s) ELSE Min(stops) - 1)

\* the indices where re.search can match forum\?id=([^&\s]+)
ForumIdMatches(s) ==
    {i \in 1..(Len(s) - 9) : SubSeq(s, i, i + 8) = "forum?id=" /\ ValueRun(s, i + 9) # ""}

\* the indices where re.search can match /([a-zA-Z0-9_-]{20,})
DirectIdMatches(s) ==
    {i \in 1..Len(s) : Ch(s, i) = "/" /\ Len(IdRun(s, i + 1)) >= MinDirectIdLen}

extract_forum_id(openreview_link) ==
    IF openreview_link = "" THEN None
    ELSE IF ForumIdMatches(openreview_link) # {}
    THEN Str(ValueRun(openreview_link, Min(ForumIdMatches(openreview_link)) + 9))
    ELSE IF DirectIdMatches(openreview_link) # {}
    THEN Str(IdRun(openreview_link, Min(DirectIdMatches(openreview_link)) + 1))
    ELSE None

\* strings of 1..n characters of the set S
RECURSIVE StringsOfLen(_, _)
StringsOfLen(S, n) ==
    IF n = 0 THEN {""} ELSE {c \o t : c \in S, t \in StringsOfLen(S, n - 1)}

IdAlphabet == {"a", "B", "1", "-", "_", "+"}
GeneratedIds == UNION {StringsOfLen(IdAlphabet, n) : n \in 1..MaxIdLen}
LinkBases == {"https://openreview.net", ""}
LinkTails == {"", "&noteId=xyz", "&id=zz"}
LongId == "abcdefghij0123456789"

\* links <base>/forum?id=X with further parameters or none, links whose id is a
\* path segment, and links with neither; `id` is the id the link was built from
ForumLinks ==
    {[kind |-> "query", url |-> base \o "/forum?id=" \o x \o tail, id |-> x] :
        base \in LinkBases, x \in GeneratedIds \cup {"abc123", "ABC12"}, tail \in LinkTails}
    \cup {[kind |-> "path", url |-> base \o "/forum/" \o x, id |-> x] :
            base \in LinkBases, x \in {"B2", LongId}}
    \cup {[kind |-> "other", url |-> u, id |-> ""] :
            u \in {"", "https://openreview.net/forum?noteId=xyz", "https://openreview.net/"}}

DeriveForumId ==
    /\ fpc = "call"
    /\ Len(derived_ids) < MaxCalls
    /\ derived_ids' = Append(derived_ids, _derive_forum_id(flink.url))
    /\ UNCHANGED <<fpc, flink, extracted_ids, cpc, csv_text, df, urlVars, gitVars, parseVars,
                   runVars, downVars, extVars, mainVars>>

ExtractForumId ==
    /\ fpc = "call"
    /\ Len(extracted_ids) < MaxCalls
    /\ extracted_ids' = Append(extracted_ids, extract_forum_id(flink.url))
    /\ UNCHANGED <<fpc, flink, derived_ids, cpc, csv_text, df, urlVars, gitVars, parseVars,
                   runVars, downVars, extVars, mainVars>>

InitForum ==
    /\ fpc = "call" /\ flink \in ForumLinks /\ derived_ids = <<>> /\ extracted_ids = <<>>
    /\ cpc = "idle" /\ csv_text = NoCsv /\ df = NotRun
    /\ xpc = "idle" /\ xurl = "" /\ xforum = "" /\ xext = NotRun /\ xdir = {} /\ xfound = NotRun
    /\ mpc = "idle" /\ sources = NoSources /\ consulted = <<>> /\ main_ids = <<>>
    /\ ids_written = FALSE /\ midx = 0 /\ success_count = 0 /\ failed_count = 0
    /\ upc = "idle" /\ url1 = "" /\ url2 = "" /\ same = NotRun
    /\ gpc = "idle" /\ gshape = "https" /\ ghost = "" /\ gsegs = <<>> /\ gsuffix = ""
    /\ gresult = NotRun
    /\ ppc = "idle" /\ table = NoTable /\ records = NotRun
    /\ pc = "idle" /\ page = NoPage /\ metadata = NotRun /\ csv = NotRun
    /\ cur = 0 /\ step = "idle" /\ notes = NotRun /\ counts = ZeroCounts /\ disk = EmptyDisk
    /\ remote = {} /\ escaped = NotRun /\ skipped = {}
    /\ awaiting_delay = FALSE /\ hurried = FALSE
    /\ dpc = "idle" /\ runs = 0 /\ forum_ids = <<>> /\ paper_idx = 0 /\ pdf_file = <<>>
    /\ attempt = 0 /\ requests = 0 /\ dresult = NotRun /\ call_requests = 0 /\ sleeps = 0

NextForum ==
    \/ DeriveForumId
    \/ ExtractForumId

SpecForum == InitForum /\ [][NextForum]_vars

(***************************************************************************)
(* parse_submissions_table (scrape_metadata.py 67-166): the text of        *)
(* papers.csv, split into lines and fields by hand, then filtered on the   *)
(* forum id of the link column.                                            *)
(***************************************************************************)
MaxCsvRows == 2     \* lines after the header line of a generated papers.csv

Quote == "\""

\* s.strip(chars), for a set of characters
RECURSIVE StripChars(_, _)
StripChars(s, chars) ==
    IF s = "" THEN ""
    ELSE IF Ch(s, 1) \in chars THEN StripChars(From(s, 2), chars)
    ELSE IF Ch(s, Len(s)) \in chars THEN StripChars(SubSeq(s, 1, Len(s) - 1), chars)
    ELSE s

\* s.strip()
PyStrip(s) == StripChars(s, Whitespace)

\* parse_csv_line (lines 96-109) reads the line character by character; the model
\* states what the loop has done at each index.
\* in_quotes when the loop reaches index k: lines 101-102 have toggled it once for
\* each quote before k
InQuotes(line, k) == Cardinality({j \in 1..(k - 1) : Ch(line, j) = Quote}) % 2 = 1

\* line 103: the commas that end a value
Separators(line) == {k \in 1..Len(line) : Ch(line, k) = "," /\ ~InQuotes(line, k)}

\* the n-th separator of the line; 0 before the first, Len(line) + 1 after the last
Separator(line, n) ==
    IF n = 0 THEN 0
    ELSE IF n > Cardinality(Separators(line)) THEN Len(line) + 1
    ELSE CHOOSE k \in Separators(line) :
             Cardinality({j \in Separators(line) : j < k}) = n - 1

\* lines 104 and 108: `current` between two separators is every character but the
\* quotes (line 107), and is stripped when it is appended
parse_csv_line(line) ==
    [n \in 1..(Cardinality(Separators(line)) + 1) |->
        PyStrip(Replace(SubSeq(line, Separator(line, n - 1) + 1, Separator(line, n) - 1),
                        Quote, ""))]

\* line 112: [h.strip().strip('"') for h in parse_csv_line(headers_line)]
CsvHeaders(headers_line) ==
    LET cells == parse_csv_line(headers_line)
    IN  [j \in 1..Len(cells) |-> StripChars(PyStrip(cells[j]), {Quote})]

\* a parse that keeps every row, whatever the number of its values
TooFewValues_never(values, headers) == FALSE

\* line 120: the row has fewer values than the header has columns and is skipped
TooFewValues(values, headers) == Len(values) < Len(headers)

\* lines 124-127: the dict of a row; a header that occurs twice keeps its last column
RowData(values, headers) ==
    [h \in {headers[j] : j \in 1..Len(headers)} |->
        LET last == CHOOSE j \in 1..Len(headers) :
                        headers[j] = h /\ \A m \in (j + 1)..Len(headers) : headers[m] # h
        IN  IF last <= Len(values) THEN StripChars(PyStrip(values[last]), {Quote}) ELSE ""]

\* lines 116-129, the loop over the lines after the header from line k on
RECURSIVE CsvRows(_, _, _, _)
CsvRows(lines, headers, k, acc) ==
    IF k > Len(lines) THEN acc
    ELSE IF PyStrip(lines[k]) = "" THEN CsvRows(lines, headers, k + 1, acc)
    ELSE IF TooFewValues(parse_csv_line(lines[k]), headers)
    THEN CsvRows(lines, headers, k + 1, acc)
    ELSE CsvRows(lines, headers, k + 1,
                 Append(acc, RowData(parse_csv_line(lines[k]), headers)))

\* lines 138-140: the columns openreview_link and forum_id of a row; forum_id is a
\* Python value, None when extract_forum_id finds no id
WithForumId(row) ==
    IF "link" \in DOMAIN row
    THEN ("openreview_link" :> Str(row["link"])) @@ ("forum_id" :> extract_forum_id(row["link"]))
         @@ [h \in DOMAIN row |-> Str(row[h])]
    ELSE [h \in DOMAIN row |-> Str(row[h])]

column_mapping ==
    ("airev1_score" :> "ai_reviewer_1_score") @@ ("airev2_score" :> "ai_reviewer_2_score")
    @@ ("airev3_score" :> "ai_reviewer_3_score") @@ ("human_score" :> "human_review_score")
    @@ ("hypothesis_development" :> "hypothesis_development_label")

Renamed(column) == IF column \in DOMAIN column_mapping THEN column_mapping[column] ELSE column

\* lines 143-158: the columns renamed, the missing columns added
WithExpectedColumns(row) ==
    [c \in {Renamed(h) : h \in DOMAIN row} |-> row[CHOOSE h \in DOMAIN row : Renamed(h) = c]]
    @@ ("authors" :> Str("")) @@ ("supplementary_link" :> Str("")) @@ ("code_link" :> Str(""))

\* line 162: the rows whose forum_id is neither missing nor empty
RECURSIVE WithValidForumId(_)
WithValidForumId(rows) ==
    IF rows = <<>> THEN <<>>
    ELSE (IF rows[1]["forum_id"] # None /\ rows[1]["forum_id"] # Str("")
          THEN <<rows[1]>> ELSE <<>>) \o WithValidForumId(Tail(rows))

\* lines 132-166 for the rows read from the text; without a link column and without
\* a forum_id column line 162 raises KeyError, and line 168 gives the empty frame
FrameOf(rows) ==
    IF rows = <<>> \/ {"link", "forum_id"} \cap DOMAIN rows[1] = {}
    THEN List(<<>>)
    ELSE List(WithValidForumId(
                  [k \in 1..Len(rows) |-> WithExpectedColumns(WithForumId(rows[k]))]))

\* lines 86-90 and 93-129 for the lines of the text
FrameOfLines(lines) ==
    IF Len(lines) < 2 THEN List(<<>>)
    ELSE FrameOf(CsvRows(Tail(lines), CsvHeaders(lines[1]), 1, <<>>))

\* the rows of the frame parse_submissions_table returns for what the request gave
parse_submissions_table(response) ==
    IF response.kind = "request_failed" THEN List(<<>>)
    ELSE FrameOfLines(Split(PyStrip(response.v), "\n"))

\* the header lines of the generated files, with whether they hold a link column
\* and the number of their columns
CsvHeaderLines ==
    {[text |-> "title,link,human_score,status", link_column |-> TRUE, columns |-> 4],
     [text |-> "\"title\", \"link\", \"human_score\", \"status\"", link_column |-> TRUE,
      columns |-> 4],
     [text |-> "title,status", link_column |-> FALSE, columns |-> 2]}

\* the lines after the header, with the number of values of the line, the link of
\* the line and the forum id of the link
CsvLinePool ==
    {[text |-> "Paper A,https://openreview.net/forum?id=ABC12,5,accept", values |-> 4,
      link |-> "https://openreview.net/forum?id=ABC12", id |-> "ABC12"],
     [text |-> "Paper B,,4,reject", values |-> 4, link |-> "", id |-> ""],
     [text |-> "\"Paper, C\",\"https://openreview.net/forum?id=XYZ99&noteId=n1\",3,accept\r",
      values |-> 4,
      link |-> "https://openreview.net/forum?id=XYZ99&noteId=n1", id |-> "XYZ99"],
     [text |-> "Paper D,https://openreview.net/forum?id=DEF34", values |-> 2,
      link |-> "https://openreview.net/forum?id=DEF34", id |-> "DEF34"],
     [text |-> "  ", values |-> 0, link |-> "", id |-> ""],
     [text |-> "Paper E,https://openreview.net/pdf/E5,2,reject", values |-> 4,
      link |-> "https://openreview.net/pdf/E5", id |-> ""]}

RECURSIVE TextOfLines(_)
TextOfLines(rows) ==
    IF rows = <<>> THEN "" ELSE "\n" \o rows[1].text \o TextOfLines(Tail(rows))

CsvResponses ==
    {[kind |-> "request_failed", v |-> "", link_column |-> FALSE, columns |-> 0, rows |-> <<>>]}
    \cup {[kind |-> "text", v |-> h.text \o TextOfLines(r) \o "\n",
           link_column |-> h.link_column, columns |-> h.columns, rows |-> r] :
            h \in CsvHeaderLines, r \in SeqsUpTo(CsvLinePool, MaxCsvRows)}

ParseSubmissionsTable ==
    /\ cpc = "call"
    /\ df' = parse_submissions_table(csv_text)
    /\ cpc' = "done"
    /\ UNCHANGED <<csv_text, fpc, flink, derived_ids, extracted_ids, urlVars, gitVars,
                   parseVars, runVars, downVars, extVars, mainVars>>

InitCsv ==
    /\ cpc = "call" /\ csv_text \in CsvResponses /\ df = NotRun
    /\ xpc = "idle" /\ xurl = "" /\ xforum = "" /\ xext = NotRun /\ xdir = {} /\ xfound = NotRun
    /\ mpc = "idle" /\ sources = NoSources /\ consulted = <<>> /\ main_ids = <<>>
    /\ ids_written = FALSE /\ midx = 0 /\ success_count = 0 /\ failed_count = 0
    /\ fpc = "idle" /\ flink = NoLink /\ derived_ids = <<>> /\ extracted_ids = <<>>
    /\ upc = "idle" /\ url1 = "" /\ url2 = "" /\ same = NotRun
    /\ gpc = "idle" /\ gshape = "https" /\ ghost = "" /\ gsegs = <<>> /\ gsuffix = ""
    /\ gresult = NotRun
    /\ ppc = "idle" /\ table = NoTable /\ records = NotRun
    /\ pc = "idle" /\ page = NoPage /\ metadata = NotRun /\ csv = NotRun
    /\ cur = 0 /\ step = "idle" /\ notes = NotRun /\ counts = ZeroCounts /\ disk = EmptyDisk
    /\ remote = {} /\ escaped = NotRun /\ skipped = {}
    /\ awaiting_delay = FALSE /\ hurried = FALSE
    /\ dpc = "idle" /\ runs = 0 /\ forum_ids = <<>> /\ paper_idx = 0 /\ pdf_file = <<>>
    /\ attempt = 0 /\ requests = 0 /\ dresult = NotRun /\ call_requests = 0 /\ sleeps = 0

SpecCsv == InitCsv /\ [][ParseSubmissionsTable]_vars

(***************************************************************************)
(* _guess_extension (main.py 383-390) and the file name it gives the       *)
(* supplementary file (lines 353-354), then the glob of the next run       *)
(* (line 332).                                                             *)
(***************************************************************************)
\* the paths of attachment URLs
ExtPaths ==
    {"", "/attachment", "/a/file.tar.gz", "/file.tar", "/file.zip", "/file.", "/.hidden",
     "/a.b/", "/x.tar.gz/", "/a.b/c", "/file.TAR.GZ", "/a.tar.gz.zip", "/archive.tgz",
     "/v1.2/data.tar.bz2", "/tar.gz", "/x.zip/."}

\* what follows the path in the URL
ExtTails == {"", "?id=A1&name=supplementary_material", "?file=x.pdf", "#page.png"}

ExtUrls == {"https://openreview.net" \o p \o t : p \in ExtPaths, t \in ExtTails}

\* forum ids as OpenReview gives them: letters, digits, - and _
ExtForumIds == {"A1", "a-B_2"}

\* lines 353-362: the extension is guessed and the file is written under its name
GuessExtension ==
    /\ xpc = "call"
    /\ xext' = _guess_extension(xurl)
    /\ xdir' = Write(xdir, xforum \o xext', "complete")
    /\ xpc' = "saved"
    /\ UNCHANGED <<xurl, xforum, xfound, urlVars, gitVars, parseVars, runVars, downVars,
                   scrapeVars, mainVars>>

\* line 332 in the next run: the glob for the files of the forum id
GlobNextRun ==
    /\ xpc = "saved"
    /\ xfound' = Bool(GlobForumId(xdir, xforum))
    /\ xpc' = "done"
    /\ UNCHANGED <<xurl, xforum, xext, xdir, urlVars, gitVars, parseVars, runVars, downVars,
                   scrapeVars, mainVars>>

InitExt ==
    /\ xpc = "call" /\ xurl \in ExtUrls /\ xforum \in ExtForumIds
    /\ xext = NotRun /\ xdir = {} /\ xfound = NotRun
    /\ mpc = "idle" /\ sources = NoSources /\ consulted = <<>> /\ main_ids = <<>>
    /\ ids_written = FALSE /\ midx = 0 /\ success_count = 0 /\ failed_count = 0
    /\ upc = "idle" /\ url1 = "" /\ url2 = "" /\ same = NotRun
    /\ gpc = "idle" /\ gshape = "https" /\ ghost = "" /\ gsegs = <<>> /\ gsuffix = ""
    /\ gresult = NotRun
    /\ ppc = "idle" /\ table = NoTable /\ records = NotRun
    /\ pc = "idle" /\ page = NoPage /\ metadata = NotRun /\ csv = NotRun
    /\ cur = 0 /\ step = "idle" /\ notes = NotRun /\ counts = ZeroCounts /\ disk = EmptyDisk
    /\ remote = {} /\ escaped = NotRun /\ skipped = {}
    /\ awaiting_delay = FALSE /\ hurried = FALSE
    /\ dpc = "idle" /\ runs = 0 /\ forum_ids = <<>> /\ paper_idx = 0 /\ pdf_file = <<>>
    /\ attempt = 0 /\ requests = 0 /\ dresult = NotRun /\ call_requests = 0 /\ sleeps = 0
    /\ fpc = "idle" /\ flink = NoLink /\ derived_ids = <<>> /\ extracted_ids = <<>>
    /\ cpc = "idle" /\ csv_text = NoCsv /\ df = NotRun

NextExt ==
    \/ GuessExtension
    \/ GlobNextRun

SpecExt == InitExt /\ [][NextExt]_vars

(***************************************************************************)
(* download_papers.py: main (lines 365-471) from the choice of the source  *)
(* of the forum ids to the end of the loop over them.                      *)
(***************************************************************************)
MaxIds == 2         \* forum ids a source holds

\* the sources in the order main asks them: load_table_data (line 377), forum_ids.txt
\* (lines 386-396), get_all_papers_from_api (line 401), the web page (line 407)
SourceOrder == <<"table", "file", "api", "web">>

\* the k-th forum id of a source
SourceId(source, k) == SubSeq(source, 1, 1) \o SubSeq("123456789", k, k)

SourceNames == {SourceOrder[k] : k \in 1..Len(SourceOrder)}

\* what the sources hold: each none, or up to MaxIds forum ids of its own
SourceContents ==
    {[source \in SourceNames |-> [k \in 1..held[source] |-> SourceId(source, k)]] :
        held \in [SourceNames -> 0..MaxIds]}

\* a main that asks every source
Yielded_never(ids) == FALSE

\* `if table_data`, `if not forum_ids` (lines 380, 386, 400, 405, 409)
Yielded(ids) == ids # <<>>

\* a source is asked: it gives its forum ids, or nothing when the read, the API or the
\* request fails (lines 395, 141-144, 91-93); main goes on to the next source while it
\* has no forum id, and returns after the last one (lines 409-413)
AskSource(source, next) ==
    /\ mpc = source
    /\ \E ids \in {sources[source], <<>>} :
         /\ consulted' = Append(consulted, [source |-> source, ids |-> ids])
         /\ main_ids' = ids
         /\ mpc' = IF Yielded(ids) THEN "save" ELSE next
    /\ UNCHANGED <<sources, ids_written, midx, success_count, failed_count, urlVars, gitVars,
                   parseVars, runVars, downVars, scrapeVars, extVars>>

LoadTableData == AskSource("table", "file")
ReadForumIdsFile == AskSource("file", "api")
GetAllPapersFromApi == AskSource("api", "web")
ExtractForumIdsFromPage == AskSource("web", "returned")

\* lines 421-426: forum_ids.txt is written, the loop starts
SaveForumIds ==
    /\ mpc = "save"
    /\ ids_written' = TRUE
    /\ midx' = 1
    /\ mpc' = "loop"
    /\ UNCHANGED <<sources, consulted, main_ids, success_count, failed_count, urlVars,
                   gitVars, parseVars, runVars, downVars, scrapeVars, extVars>>

\* a loop that leaves a paper whose processing raised uncounted
PaperResult_raise_uncounted(paper_info, downloaded) ==
    IF paper_info = None THEN "failed"
    ELSE IF downloaded = Raised THEN "uncounted"
    ELSE IF downloaded = Bool(TRUE) THEN "success" ELSE "failed"

\* lines 438-455: which counter the paper goes to, given what get_paper_details
\* returned and what download_paper returned or raised
PaperResult(paper_info, downloaded) ==
    IF paper_info = None THEN "failed"
    ELSE IF downloaded = Raised THEN "failed"
    ELSE IF downloaded = Bool(TRUE) THEN "success" ELSE "failed"

\* lines 435-460: one iteration of the loop; get_paper_details gives the details or
\* None (it catches its exceptions, lines 174-204), download_paper returns True or
\* raises (its only return is line 363); the user may interrupt the iteration
ProcessPaper ==
    /\ mpc = "loop"
    /\ \E paper_info \in {None, Str(main_ids[midx])},
          downloaded \in {Bool(TRUE), Raised, Interrupted} :
         IF paper_info # None /\ downloaded = Interrupted
         THEN mpc' = "interrupted" /\ UNCHANGED <<midx, success_count, failed_count>>
         ELSE /\ \E result \in {PaperResult(paper_info, downloaded)} :
                   /\ success_count' = success_count + (IF result = "success" THEN 1 ELSE 0)
                   /\ failed_count' = failed_count + (IF result = "failed" THEN 1 ELSE 0)
              /\ IF midx < Len(main_ids)
                 THEN midx' = midx + 1 /\ mpc' = mpc
                 ELSE midx' = midx /\ mpc' = "done"
    /\ UNCHANGED <<sources, consulted, main_ids, ids_written, urlVars, gitVars, parseVars,
                   runVars, downVars, scrapeVars, extVars>>

InitMain ==
    /\ mpc = "table" /\ sources \in SourceContents /\ consulted = <<>> /\ main_ids = <<>>
    /\ ids_written = FALSE /\ midx = 0 /\ success_count = 0 /\ failed_count = 0
    /\ xpc = "idle" /\ xurl = "" /\ xforum = "" /\ xext = NotRun /\ xdir = {} /\ xfound = NotRun
    /\ upc = "idle" /\ url1 = "" /\ url2 = "" /\ same = NotRun
    /\ gpc = "idle" /\ gshape = "https" /\ ghost = "" /\ gsegs = <<>> /\ gsuffix = ""
    /\ gresult = NotRun
    /\ ppc = "idle" /\ table = NoTable /\ records = NotRun
    /\ pc = "idle" /\ page = NoPage /\ metadata = NotRun /\ csv = NotRun
    /\ cur = 0 /\ step = "idle" /\ notes = NotRun /\ counts = ZeroCounts /\ disk = EmptyDisk
    /\ remote = {} /\ escaped = NotRun /\ skipped = {}
    /\ awaiting_delay = FALSE /\ hurried = FALSE
    /\ dpc = "idle" /\ runs = 0 /\ forum_ids = <<>> /\ paper_idx = 0 /\ pdf_file = <<>>
    /\ attempt = 0 /\ requests = 0 /\ dresult = NotRun /\ call_requests = 0 /\ sleeps = 0
    /\ fpc = "idle" /\ flink = NoLink /\ derived_ids = <<>> /\ extracted_ids = <<>>
    /\ cpc = "idle" /\ csv_text = NoCsv /\ df = NotRun

NextMain ==
    \/ LoadTableData
    \/ ReadForumIdsFile
    \/ GetAllPapersFromApi
    \/ ExtractForumIdsFromPage
    \/ SaveForumIds
    \/ ProcessPaper

SpecMain == InitMain /\ [][NextMain]_vars

(***************************************************************************)
(* Claims about _urls_are_same_file, under SpecUrl.                        *)
(***************************************************************************)
PathOf(url) == urlparse(url).path
HostOf(url) == urlparse(url).netloc
IdOf(url) == query_get(urlparse(url).query, "id")

IsAttachmentUrl(url) == Contains(PathOf(url), "attachment")

\* the attachment-id rule applies to the pair: both attachment URLs, equal non-empty ids
AttachmentIdMatch(a, b) ==
    /\ IsAttachmentUrl(a) /\ IsAttachmentUrl(b)
    /\ IdOf(a) # "" /\ IdOf(a) = IdOf(b)

\* C3: two attachment URLs with different non-empty ids are never reported as the
\* same object, also when host and attachment path are the same.
C3_DifferentIdsNeverSame ==
    (/\ upc = "done"
     /\ IsAttachmentUrl(url1) /\ IsAttachmentUrl(url2)
     /\ IdOf(url1) # "" /\ IdOf(url2) # "" /\ IdOf(url1) # IdOf(url2))
    => same # Bool(TRUE)

\* C4: two non-empty URLs whose paths both contain `attachment` and whose ids are
\* equal and non-empty are reported as the same object, whatever scheme and host.
C4_EqualIdsSame ==
    (upc = "done" /\ url1 # "" /\ url2 # "" /\ AttachmentIdMatch(url1, url2))
    => same = Bool(TRUE)

\* C4 witness: equal ids, hosts differing in case and schemes differing, so that only
\* the id rule can answer True.
C4_Witness ==
    /\ upc = "done"
    /\ url1 = "https://openreview.net/attachment?id=A"
    /\ url2 = "HTTP://OpenReview.net/attachment?id=A"
    /\ HostOf(url1) # HostOf(url2)
    /\ same = Bool(TRUE)

gpath == Join(gsegs, "/") \o gsuffix

\* https://github.com/<owner>/<repo>, both names non-empty
IsCanonical(result) ==
    /\ result.py = "str"
    /\ StartsWith(result.v, "https://github.com/")
    /\ LET names == Split(From(result.v, Len("https://github.com/") + 1), "/")
       IN  Len(names) = 2 /\ names[1] # "" /\ names[2] # ""

\* C6: a link whose host is not GitHub is not recognised, in every accepted shape.
C6_NonGithubNotRecognized ==
    (gpc = "done" /\ Lower(ghost) # "github.com") => gresult = None

\* C7: for every owner and repository name, the four shapes around github.com
\* normalise to https://github.com/owner/repo.
C7_FourShapesOneValue ==
    (/\ gpc = "done"
     /\ ghost = "github.com"
     /\ Len(gsegs) = 2 /\ gsegs[1] # "" /\ gsegs[2] # ""
     /\ (gshape = "ssh" => gsuffix = ".git"))
    => gresult = Str("https://github.com/" \o gsegs[1] \o "/" \o gsegs[2])

\* C8: a result is None or https://github.com/<owner>/<repo> with exactly two
\* non-empty names, and a link with fewer than two path segments gives None.
C8_CanonicalOrNone ==
    gpc = "done" =>
        /\ gresult = None \/ IsCanonical(gresult)
        /\ Len(NonEmpty(Split(gpath, "/"))) < 2 => gresult = None

(***************************************************************************)
(* Claims about _parse_table, under SpecParse.                             *)
(***************************************************************************)
\* the column targets and the record of body row k before the forum id is derived
MappedFields(k) == FillRecord(EmptyRecord, BodyRows(table)[k], MapHeaders(HeaderCells(table)), 1)

\* C1: every record of the parsed result has a non-empty forum_id.
C1_ForumIdNonEmpty ==
    (ppc = "done" /\ records.py = "list")
    => \A i \in 1..Len(records.v) : records.v[i]["forum_id"] # ""

\* the rows the admission rule keeps, in table order
ExcludedByRule(k) ==
    LET mapped == MappedFields(k)
    IN  \/ \A field \in FieldNames : mapped[field] = ""
        \/ (mapped["forum_id"] = "" /\ mapped["openreview_link"] = "")

RECURSIVE KeptFrom(_)
KeptFrom(k) ==
    IF k > Len(BodyRows(table)) THEN <<>>
    ELSE (IF ExcludedByRule(k) THEN <<>> ELSE <<k>>) \o KeptFrom(k + 1)

\* C2: the result holds exactly the rows that are not excluded by the admission rule
\* (every mapped field empty, or forum_id and openreview_link both empty), in table
\* order, each with the values of its mapped cells.
C2_AdmissionRule ==
    (ppc = "done" /\ records.py = "list") =>
        LET kept == KeptFrom(1)
        IN  /\ Len(records.v) = Len(kept)
            /\ \A j \in 1..Len(kept) :
                 LET mapped == MappedFields(kept[j])
                 IN  /\ BodyRows(table)[kept[j]] # <<>>
                     /\ \A field \in FieldNames \ {"forum_id"} :
                            records.v[j][field] = mapped[field]
                     /\ mapped["forum_id"] # ""
                            => records.v[j]["forum_id"] = mapped["forum_id"]

\* C2 witness: a first row with a title but neither forum_id nor openreview_link is
\* left out, and the row after it is kept.
C2_Witness ==
    /\ ppc = "done" /\ records.py = "list"
    /\ Len(BodyRows(table)) = 2
    /\ MappedFields(1)["title"] # ""
    /\ MappedFields(1)["forum_id"] = "" /\ MappedFields(1)["openreview_link"] = ""
    /\ Len(records.v) = 1
    /\ records.v[1]["openreview_link"] = MappedFields(2)["openreview_link"]
    /\ records.v[1]["openreview_link"] # ""

\* the headers of the tables, as written, with the field the alias table gives the
\* header once it is lower-cased and stripped of what is not a letter or a digit;
\* "Notes" is no alias
DocumentedField ==
    ("Forum ID" :> "forum_id") @@ ("forum" :> "forum_id") @@ ("forum_id" :> "forum_id")
    @@ ("OpenReview Link" :> "openreview_link") @@ ("OpenReview" :> "openreview_link")
    @@ ("Title" :> "title") @@ ("AI Reviewer 1 Score" :> "ai_reviewer_1_score")

\* the elements of seq from index k on whose index is in S
RECURSIVE KeepIdx(_, _, _)
KeepIdx(seq, S, k) ==
    IF k > Len(seq) THEN <<>>
    ELSE (IF k \in S THEN <<seq[k]>> ELSE <<>>) \o KeepIdx(seq, S, k + 1)

\* the columns of the table whose header is an alias
AliasColumns(t) == {c \in 1..Len(t.header) : t.header[c] \in DOMAIN DocumentedField}

\* the table without the columns whose header is no alias: the header cell and the
\* cell of each row at that index are taken out
WithoutUnmappedColumns(t) ==
    [t EXCEPT
        !.header = KeepIdx(t.header, AliasColumns(t), 1),
        !.rows = [k \in 1..Len(t.rows) |->
                    KeepIdx(t.rows[k],
                            AliasColumns(t) \cup ((Len(t.header) + 1)..Len(t.rows[k])), 1)]]

\* C15: _map_header gives the canonical field for a header that is an alias once
\* normalised and no mapping for any other header, and _parse_table builds from a
\* table with an unmapped column the records it builds from the table without that
\* column.
C15_UnmappedColumnDropped ==
    ppc = "done" =>
        /\ \A c \in 1..Len(table.header) :
              _map_header(table.header[c]) =
                  IF c \in AliasColumns(table)
                  THEN Str(DocumentedField[table.header[c]]) ELSE None
        /\ records = _parse_table(WithoutUnmappedColumns(table))

\* C15 witness: under the headers Notes and forum, a row with a link in the Notes
\* column and the text paper in the forum column gives a record that holds paper as
\* forum_id and nothing else.
C15_Witness ==
    /\ ppc = "done"
    /\ table.header = <<"Notes", "forum">>
    /\ table.thead /\ table.tbody
    /\ Len(table.rows) = 1 /\ Len(table.rows[1]) = 2 /\ table.rows[1][1].href # ""
    /\ records = List(<<[EmptyRecord EXCEPT !["forum_id"] = "paper"]>>)

(***************************************************************************)
(* Claims about partial output, under SpecDownload.                        *)
(***************************************************************************)
\* C9: after a write that failed mid-stream, no partial output remains at the path of
\* the artifact: once download_file has given False, no PDF file is partial.
C9_NoPartialOutputRemains ==
    (dpc # "loop" /\ dresult = Bool(FALSE))
    => \A k \in 1..Len(forum_ids) : pdf_file[k] # "partial"

(***************************************************************************)
(* Claims about _process_papers, under Spec.                               *)
(***************************************************************************)
\* C10: the failure of one artifact step of a record stops neither the remaining
\* steps of that record nor the later records: no run ends with an exception while
\* a record still has a step to go.
C10_StepFailureDoesNotStopRun ==
    pc = "raised" => step \notin {"notes", "reviews", "pdf", "supp", "clone"}

\* a file or directory of the name that an earlier run stored
Earlier(dir, name) == [name |-> name, state |-> "earlier"] \in dir

\* C11: in a run after one that stored the PDF, the supplementary file and the
\* repository directory of a forum id, with the remote side answering as before (the
\* notes hold the PDF note, the code link is the repository link), the PDF step, the
\* supplementary step and the clone step of that forum id make no remote call and
\* each counts the artifact as stored.
C11_StoredArtifactsNotFetchedAgain ==
    [][(/\ pc = "process" /\ step \in {"pdf", "supp", "clone"}
        /\ Earlier(disk.pdfs, ForumId \o ".pdf")
        /\ \E f \in disk.supp : f.state = "earlier" /\ StartsWith(f.name, ForumId \o ".")
        /\ Earlier(disk.code, ForumId)
        /\ step = "pdf" => PdfNote(notes.v) # None
        /\ step = "clone" => _normalize_github_repo_url(CodeLink) \notin {None, Raised})
       => /\ remote' = remote
          /\ disk' = disk
          /\ pc' \in {"process", "done"}
          /\ step = "pdf" => counts'.pdfs = counts.pdfs + 1
          /\ step = "supp" => counts'.supplementary = counts.supplementary + 1
          /\ step = "clone" => counts'.repos = counts.repos + 1]_vars

\* C11 witness: the run over the one record A1 has ended, the three artifacts of the
\* earlier run are counted and only the table and the notes were asked for.
C11_Witness ==
    /\ pc = "done"
    /\ Len(metadata.v) = 1 /\ metadata.v[1]["forum_id"] = "A1"
    /\ Earlier(disk.pdfs, "A1.pdf") /\ Earlier(disk.supp, "A1.bin") /\ Earlier(disk.code, "A1")
    /\ counts.pdfs = 1 /\ counts.supplementary = 1 /\ counts.repos = 1
    /\ remote = {Call("table", ""), Call("notes", "A1")}

\* the table request failed, the page has no table, or the table parses to no record
NoRows == page.kind # "table" \/ _parse_table(page.table) = List(<<>>)

\* C12: once _fetch_metadata has returned, run aborts exactly when the table fetch
\* failed, no table was found or parsing yielded no rows, and an aborted run has
\* written no metadata file, processed no record, touched no file and made no remote
\* call but the table request.
C12_AbortWithoutRows ==
    /\ metadata # NotRun => (pc = "aborted" <=> NoRows)
    /\ pc = "aborted" =>
          /\ csv = NotRun
          /\ cur = 0 /\ step = "fetch" /\ notes = NotRun
          /\ counts = ZeroCounts
          /\ disk \in InitialDisks
          /\ remote = {Call("table", "")}

\* C12 witness: a table whose body has no row ended the run, beside an earlier run's
\* files.
C12_Witness ==
    /\ pc = "aborted"
    /\ page.kind = "table" /\ page.table.rows = <<>>
    /\ disk # EmptyDisk

\* C13: no two records of the list _parse_table returned share a forum_id, so the
\* loop of _process_papers meets each forum id at most once.
C13_ForumIdIsUniqueKey ==
    metadata # NotRun =>
        \A a, b \in 1..Len(metadata.v) :
            a # b => metadata.v[a]["forum_id"] # metadata.v[b]["forum_id"]

(***************************************************************************)
(* Claims about forum-id extraction, under SpecForum.                      *)
(***************************************************************************)
\* a forum id: a non-empty string of letters, digits, _ and -
IsForumId(x) == x # "" /\ \A j \in 1..Len(x) : Ch(x, j) \in IdChars

\* every call made so far gave the result r
AllCallsGive(results, r) == \A k \in 1..Len(results) : results[k] = r

\* C14: forum-id extraction is deterministic (every call on a link gives what the
\* first call gave); for a link <base>/forum?id=X, with further query parameters or
\* none, _derive_forum_id and extract_forum_id give exactly X; for a link without an
\* id parameter whose path is /forum/<id>, the path-segment fallback gives the id.
C14_ForumIdExtraction ==
    /\ derived_ids # <<>> => AllCallsGive(derived_ids, derived_ids[1])
    /\ extracted_ids # <<>> => AllCallsGive(extracted_ids, extracted_ids[1])
    /\ (flink.kind = "query" /\ IsForumId(flink.id))
       => AllCallsGive(derived_ids, Str(flink.id)) /\ AllCallsGive(extracted_ids, Str(flink.id))
    /\ (flink.kind = "path" /\ Len(flink.id) >= MinDirectIdLen)
       => AllCallsGive(derived_ids, Str(flink.id)) /\ AllCallsGive(extracted_ids, Str(flink.id))

(***************************************************************************)
(* Claims about parse_submissions_table, under SpecCsv.                    *)
(***************************************************************************)
\* forum_id and openreview_link of each row of a frame
KeyColumns(frame) ==
    [k \in 1..Len(frame.v) |-> <<frame.v[k]["forum_id"], frame.v[k]["openreview_link"]>>]

\* forum id and link of the lines of the file whose link holds a forum id, in file
\* order; with full_only, of those among them that have a value for every column
RECURSIVE LinesWithForumId(_, _, _)
LinesWithForumId(lines, columns, full_only) ==
    IF lines = <<>> THEN <<>>
    ELSE (IF lines[1].id # "" /\ (full_only => lines[1].values >= columns)
          THEN <<(<<Str(lines[1].id), Str(lines[1].link)>>)>> ELSE <<>>)
         \o LinesWithForumId(Tail(lines), columns, full_only)

\* the lines of the file that have a link column to read
LinkLines == IF csv_text.link_column THEN csv_text.rows ELSE <<>>

\* C16: parse_submissions_table keeps exactly the data rows whose link yields a
\* non-empty forum id, in file order, each with that forum id.
C16_KeepsRowsWithForumId ==
    cpc = "done" => KeyColumns(df) = LinesWithForumId(LinkLines, csv_text.columns, FALSE)

\* C16, amended: parse_submissions_table keeps exactly the data rows that have a value
\* for every column of the header and whose link yields a non-empty forum id, in
\* file order, each with that forum id; a row with fewer values than the header has
\* columns is left out whatever its link.
C16_KeepsFullRowsWithForumId ==
    cpc = "done" => KeyColumns(df) = LinesWithForumId(LinkLines, csv_text.columns, TRUE)

\* C16 witness: the file with the columns title,link,human_score,status, a first row
\* with the link https://openreview.net/forum?id=ABC12 and a second row with an empty
\* link gives exactly one record, with forum_id ABC12.
C16_Witness ==
    /\ cpc = "done"
    /\ csv_text.v = "title,link,human_score,status\n"
                    \o "Paper A,https://openreview.net/forum?id=ABC12,5,accept\n"
                    \o "Paper B,,4,reject\n"
    /\ Len(df.v) = 1
    /\ df.v[1]["forum_id"] = Str("ABC12")
    /\ df.v[1]["title"] = Str("Paper A")

(***************************************************************************)
(* Claims about main and the order of a run, under Spec.                   *)
(***************************************************************************)
\* C17: a KeyboardInterrupt that leaves run, at whatever step it was raised, is caught
\* by main, which ends without re-raising it; any other exception that leaves run is
\* re-raised by main; and main ends in one of these two ways only when an exception
\* left run.
C17_InterruptCaughtOthersReraised ==
    /\ escaped = Interrupted => pc = "interrupted"
    /\ escaped \notin {NotRun, Interrupted} => pc = "raised"
    /\ pc \in {"interrupted", "raised"} => escaped # NotRun

\* C17 witness: the user interrupts the clone of the second record, after the first
\* record went through all its steps.
C17_Witness ==
    /\ pc = "interrupted" /\ escaped = Interrupted
    /\ cur = 2 /\ step = "clone"
    /\ Call("clone", metadata.v[1]["forum_id"]) \in remote

\* the pass over record k is over: the loop has moved on, or run has returned
PassOver(k) == cur > k \/ pc = "done"

\* C18: a record whose attachment was skipped as a duplicate of its code link has,
\* once its pass is over, the object stored by the code-link step: a directory of its
\* forum id under code/.
C18_DuplicateSkipKeepsOneCopy ==
    metadata # NotRun =>
        \A k \in 1..Len(metadata.v) :
            (metadata.v[k]["forum_id"] \in skipped /\ PassOver(k))
            => Exists(disk.code, metadata.v[k]["forum_id"])

\* the directories of the PDFs, the supplementary files and the repositories
ArtifactDirs == {"pdfs", "supp", "code"}

\* C19: no step of a run deletes or overwrites a PDF, a supplementary file or a
\* repository directory that existed before the run started, and every file or
\* directory that is there before a step is there, unchanged, after it: what a cleanup
\* removes is only what the failed attempt of that step created.
C19_EarlierOutputUntouched ==
    [][/\ \A dir \in ArtifactDirs :
            \A f \in disk[dir] : f.state = "earlier" => f \in disk'[dir]
       /\ \A dir \in ArtifactDirs : disk[dir] \subseteq disk'[dir]]_vars

\* C19 witness: the run over D4 and A1 has ended; the PDF of D4 was requested and none
\* is left (the request or the write failed), and the PDF, the supplementary file and
\* the repository an earlier run stored for A1 are still there.
C19_Witness ==
    /\ pc = "done"
    /\ Len(metadata.v) = 2
    /\ metadata.v[1]["forum_id"] = "D4" /\ metadata.v[2]["forum_id"] = "A1"
    /\ Call("pdf", "D4") \in remote /\ ~Exists(disk.pdfs, "D4.pdf")
    /\ Earlier(disk.pdfs, "A1.pdf") /\ Earlier(disk.supp, "A1.bin") /\ Earlier(disk.code, "A1")

\* the place of a step in the body of the loop
StepRank ==
    [s \in {"fetch", "notes", "reviews", "pdf", "supp", "clone", "end"} |->
        CASE s = "fetch" -> 0 [] s = "notes" -> 1 [] s = "reviews" -> 2 [] s = "pdf" -> 3
          [] s = "supp" -> 4 [] s = "clone" -> 5 [] s = "end" -> 6]

\* the remote calls that belong to a step
StepCalls ==
    [s \in {"fetch", "notes", "reviews", "pdf", "supp", "clone", "end"} |->
        CASE s = "fetch" -> {"table"} [] s = "notes" -> {"notes"} [] s = "pdf" -> {"pdf"}
          [] s = "supp" -> {"forum_page", "supplementary"} [] s = "clone" -> {"clone"}
          [] OTHER -> {}]

\* C20: the metadata table is written before any call about a record; the records are
\* taken one by one in the order of the table; within a record the steps come in the
\* order notes, reviews, PDF, supplementary, clone, each step asking only for what
\* belongs to it and to the record at hand; and the next record is begun only when the
\* clone step of the record at hand has returned (or the record was skipped for its
\* missing forum id).
C20_FixedStepOrder ==
    [][/\ cur' \in {cur, cur + 1}
       /\ cur' = cur => StepRank[step'] >= StepRank[step]
       /\ (cur' = cur /\ pc' = "process") => StepRank[step'] > StepRank[step]
       /\ cur' = cur + 1 =>
            /\ step' = "notes"
            /\ \/ cur = 0 /\ step = "fetch" /\ csv' = metadata' /\ csv' # NotRun
               \/ cur > 0 /\ step = "clone"
               \/ cur > 0 /\ step = "notes" /\ Strip(metadata.v[cur]["forum_id"]) = ""
            /\ cur' <= Len(metadata'.v)
       /\ cur > 0 =>
            /\ csv = metadata /\ csv' = csv /\ metadata' = metadata
            /\ remote' \ remote \subseteq
                 {Call(op, Strip(metadata.v[cur]["forum_id"])) : op \in StepCalls[step]}
       /\ cur = 0 => remote' \ remote \subseteq {Call("table", "")}]_vars

\* C20 witness: the run over A1 and D4 on an empty disk has ended: the table was
\* written, all five steps of A1 made their calls and the notes, the PDF and the forum
\* page of D4 were asked for after them.
C20_Witness ==
    /\ pc = "done" /\ cur = 2 /\ step = "end"
    /\ csv = metadata
    /\ Len(metadata.v) = 2
    /\ metadata.v[1]["forum_id"] = "A1" /\ metadata.v[2]["forum_id"] = "D4"
    /\ remote = {Call("table", "")}
                \cup {Call(op, "A1") : op \in {"notes", "pdf", "forum_page",
                                               "supplementary", "clone"}}
                \cup {Call(op, "D4") : op \in {"notes", "pdf", "forum_page"}}

(***************************************************************************)
(* Claims about download_file, under SpecDownload.                         *)
(***************************************************************************)
\* C21: a call of download_file sends at most max_retries requests; the attempt that
\* succeeds returns True at once, with no further request; False is returned only by
\* the max_retries-th failed attempt in a row; and there is one wait after each failed
\* attempt but the last, none after a success.
C21_BoundedRetries ==
    [][requests' # requests =>
         /\ requests' = requests + 1
         /\ call_requests' = call_requests + 1 /\ call_requests' <= max_retries
         /\ pdf_file'[paper_idx] = "complete" =>
                dresult' = Bool(TRUE) /\ dpc' # "loop" /\ sleeps' = call_requests' - 1
         /\ (dpc' # "loop" /\ dresult' = Bool(FALSE)) =>
                call_requests' = max_retries /\ sleeps' = max_retries - 1
         /\ dpc' = "loop" =>
                /\ pdf_file'[paper_idx] # "complete"
                /\ call_requests' < max_retries /\ sleeps' = call_requests']_vars

\* C21 witness: the first paper took max_retries failed attempts and two waits, and
\* the call for the second paper has just succeeded at its second attempt after one
\* wait.
C21_Witness ==
    /\ Len(forum_ids) = 2 /\ runs = 1 /\ dpc = "done"
    /\ pdf_file[1] = "absent" /\ pdf_file[2] = "complete"
    /\ requests = max_retries + 2
    /\ call_requests = 2 /\ sleeps = 1 /\ dresult = Bool(TRUE)

(***************************************************************************)
(* Claims about _guess_extension, under SpecExt.                           *)
(***************************************************************************)
\* the last segment of a path, "" when it has none
FileName(path) ==
    LET parts == SelectSeq(Split(path, "/"), LAMBDA part : part \notin {"", "."})
    IN  IF parts = <<>> THEN "" ELSE parts[Len(parts)]

\* the tails of a name that start at a dot which is neither its first nor its last
\* character and hold no other dot: the final suffix, if the name has one
FinalSuffixes(name) ==
    {SubSeq(name, k, Len(name)) : k \in {m \in 2..(Len(name) - 1) :
        /\ Ch(name, m) = "."
        /\ \A n \in (m + 1)..Len(name) : Ch(name, n) # "."}}

\* C22: _guess_extension gives ".tar.gz" for a path ending in .tar.gz, else the final
\* suffix of the path, and ".bin" when the path has no suffix; the result starts with
\* a dot, so that the file saved as <forum_id><ext> is found by the <forum_id>.* glob
\* of the next run.
C22_ExtensionFoundByGlob ==
    xpc # "call" =>
        /\ EndsWith(urlparse(xurl).path, ".tar.gz") => xext = ".tar.gz"
        /\ ~EndsWith(urlparse(xurl).path, ".tar.gz") =>
              /\ \A suffix \in FinalSuffixes(FileName(urlparse(xurl).path)) : xext = suffix
              /\ FinalSuffixes(FileName(urlparse(xurl).path)) = {} => xext = ".bin"
        /\ StartsWith(xext, ".")
        /\ xdir = {[name |-> xforum \o xext, state |-> "complete"]}
        /\ xpc = "done" => xfound = Bool(TRUE)

\* C22 witness: an attachment whose path ends in .tar.gz was saved as A1.tar.gz and
\* the glob of the next run has found it.
C22_Witness ==
    /\ xpc = "done" /\ xforum = "A1"
    /\ xurl = "https://openreview.net/a/file.tar.gz?id=A1&name=supplementary_material"
    /\ xext = ".tar.gz"
    /\ xdir = {[name |-> "A1.tar.gz", state |-> "complete"]}
    /\ xfound = Bool(TRUE)

(***************************************************************************)
(* Claims about the pacing of the remote calls, under Spec.                *)
(***************************************************************************)
\* C23: every remote call of a run (table fetch, notes lookup, forum page, PDF or
\* supplementary download, repository clone) is followed by a delay before the next
\* remote call is issued: no call is issued while the delay of the call before it is
\* still to come.
C23_DelayAfterEveryCall == ~hurried

(***************************************************************************)
(* Claims about the .git suffix, under SpecGit.                            *)
(***************************************************************************)
\* C24: for a link <owner>/<repo> with or without the .git suffix that is recognised,
\* the result is the same as for the link with the other choice of suffix, and its
\* owner and repository names are exactly those of the link: .git is removed only
\* as the trailing suffix of the repository name.
C24_OnlyTrailingGitRemoved ==
    (/\ gpc = "done" /\ gresult.py = "str"
     /\ Len(gsegs) = 2 /\ gsegs[1] # "" /\ gsegs[2] # "")
    => /\ \A suffix \in GitSuffixes :
            gresult = _normalize_github_repo_url(BuildLink(gshape, ghost, gsegs, suffix))
       /\ gresult = Str("https://github.com/" \o gsegs[1] \o "/" \o gsegs[2])

(***************************************************************************)
(* Claims about download_papers.main, under SpecMain.                      *)
(***************************************************************************)
\* C25: main asks the sources in the order saved table data, forum_ids.txt, API, web
\* page; every source asked before the last one asked gave no forum id, so that no
\* source is asked once an earlier one gave ids, and forum_ids is what the first source
\* that gave any gave; when all four gave none, main returns without writing
\* forum_ids.txt and without processing a paper.
C25_FirstNonEmptySource ==
    /\ Len(consulted) <= Len(SourceOrder)
    /\ \A k \in 1..Len(consulted) :
            /\ consulted[k].source = SourceOrder[k]
            /\ k < Len(consulted) => consulted[k].ids = <<>>
    /\ consulted # <<>> => main_ids = consulted[Len(consulted)].ids
    /\ mpc \in {"save", "loop", "done", "interrupted"} => main_ids # <<>>
    /\ ids_written => mpc \in {"loop", "done", "interrupted"}
    /\ midx > 0 => ids_written
    /\ mpc = "returned" =>
            /\ Len(consulted) = Len(SourceOrder)
            /\ \A k \in 1..Len(consulted) : consulted[k].ids = <<>>
            /\ ~ids_written /\ midx = 0 /\ success_count = 0 /\ failed_count = 0

\* C25 witness: the table data and forum_ids.txt gave nothing, the API gave two forum
\* ids, the web page (which holds ids too) was not asked, and the loop has ended.
C25_Witness ==
    /\ mpc = "done" /\ ids_written
    /\ Len(consulted) = 3 /\ consulted[3].source = "api"
    /\ main_ids = <<"a1", "a2">>
    /\ sources["web"] # <<>>

\* C27: in the loop of main every forum id gone through was counted exactly once, and
\* after the loop success_count + failed_count is the number of forum ids, whatever
\* get_paper_details returned and download_paper returned or raised.
C27_EveryPaperCountedOnce ==
    /\ mpc = "loop" => success_count + failed_count = midx - 1
    /\ mpc = "done" => success_count + failed_count = Len(main_ids)

\* C27 witness: of two forum ids one was downloaded and one failed, and the loop has
\* ended.
C27_Witness ==
    /\ mpc = "done" /\ Len(main_ids) = 2
    /\ success_count = 1 /\ failed_count = 1

(***************************************************************************)
(* Claims about the counters, under Spec.                                  *)
(***************************************************************************)
\* the step of the loop body that increments the counter
CounterStep ==
    [c \in {"reviews", "pdfs", "supplementary", "repos"} |->
        CASE c = "reviews" -> "reviews" [] c = "pdfs" -> "pdf"
          [] c = "supplementary" -> "supp" [] c = "repos" -> "clone"]

\* the records iterated so far whose step of counter c has returned
StepsReturned(c) ==
    IF cur > 0 /\ StepRank[step] <= StepRank[CounterStep[c]] THEN cur - 1 ELSE cur

\* C26: at every point of a run each of the counters pdfs, reviews, supplementary and
\* repos is changed only by its own step, by one at most and never downwards, so it
\* is incremented at most once per iterated record; it is at most the number of
\* records iterated so far, which is at most total_papers.
C26_CountersBounded ==
    [][\A c \in DOMAIN CounterStep :
          /\ counts'[c] \in {counts[c], counts[c] + 1}
          /\ counts'[c] # counts[c] => pc = "process" /\ step = CounterStep[c]
          /\ counts[c] <= StepsReturned(c) /\ counts'[c] <= StepsReturned(c)'
          /\ StepsReturned(c) <= cur /\ cur <= counts.total_papers
          /\ StepsReturned(c)' <= cur' /\ cur' <= counts'.total_papers]_vars

\* C26 witness: the run over A1 and D4 has ended: both have their reviews and their
\* PDF, one has its supplementary file and one its repository.
C26_Witness ==
    /\ pc = "done" /\ cur = 2
    /\ metadata.v[1]["forum_id"] = "A1" /\ metadata.v[2]["forum_id"] = "D4"
    /\ counts = [total_papers |-> 2, pdfs |-> 2, reviews |-> 2, supplementary |-> 1,
                 repos |-> 1]

(***************************************************************************)
(* Claims about the symmetry of _urls_are_same_file, under SpecUrl.        *)
(***************************************************************************)
\* C28: _urls_are_same_file gives for (url1, url2) what it gives for (url2, url1), and
\* gives False whenever one of the two is empty.
C28_SymmetricAndFalseOnEmpty ==
    upc = "done" =>
        /\ same = _urls_are_same_file(url2, url1)
        /\ (url1 = "" \/ url2 = "") => same = Bool(FALSE)

\* C28 witness: an attachment URL and the same URL without its scheme, whose parse
\* results differ in netloc and path, are the same file in this order and in the
\* other.
C28_Witness ==
    /\ upc = "done"
    /\ url1 = "https://openreview.net/attachment?id=A"
    /\ url2 = "openreview.net/attachment?id=A"
    /\ same = Bool(TRUE)
    /\ _urls_are_same_file(url2, url1) = Bool(TRUE)
==============================================================================
